---- MODULE Spec2Model ----
(***************************************************************************)
(* Client-side state machine of frontend/viewer.js: the event index, the   *)
(* paginated candidate store, the two filter derivations and the fetch     *)
(* handlers that feed them.                                                *)
(*                                                                         *)
(* Representation                                                          *)
(*   - a JS string is a sequence of one-character strings;                 *)
(*   - an optional number (a JSON number, null or a missing field; the     *)
(*     result of parseFloat) is <<>> when it is null/undefined/NaN and     *)
(*     <<v>> when it is the number v; numbers are in hundredths            *)
(*     (0.93 is 93, 20 is 2000);                                           *)
(*   - a candidate array is run-length encoded: a run [row, n] stands for  *)
(*     n consecutive rows that agree on every field the code reads, so     *)
(*     that tables of tens of thousands of rows stay representable.        *)
(***************************************************************************)
EXTENDS Integers, Sequences, FiniteSets, TLC

VARIABLES
    allEntries,          \* viewer.js:5
    allEntriesIsArray,   \* FALSE when allEntries holds a JSON value that is no array
    filteredEntries,     \* viewer.js:6
    allCandidates,       \* viewer.js:10
    filteredCandidates,  \* viewer.js:11
    paginationState,     \* viewer.js:14-20
    allDataLoaded,       \* viewer.js:437
    currentDataSource,   \* viewer.js:23
    availableDataSources, \* viewer.js:24
    filterFrbId,         \* value of #filter-frb-id
    filterMinTop1,       \* value of #filter-min-top1
    filterMinSum,        \* value of #filter-min-sum
    cutMinPox,           \* value of #cut-min-pox
    cutMaxPox,           \* value of #cut-max-pox
    cutMaxMag,           \* value of #cut-max-mag
    candidatesMode,      \* value of #candidates-mode-select
    pageSizeSelect,      \* value of #page-size-select
    status,              \* text of #status
    selectDisabled,      \* #data-source-select .disabled
    serverActive,        \* the backend's active data source
    serverSources,       \* the data sources the backend is configured with
    indexRequests,       \* GET /api/index requests in flight
    pathRequests,        \* GET /api/path-table page requests in flight, in issue order
    sourcesRequest,      \* GET /api/data-sources in flight
    switchProc,          \* the running switchDataSource call, if any
    bulkProc,            \* the running loadAllCandidates call, if any
    dataLoadStatus,      \* text of #data-load-status
    appliedCuts,         \* the cut values read by the last computeFilteredCandidates
    userActions,         \* how many user events have been handled so far
    selectedEntry,       \* viewer.js:7
    selectedTitle,       \* text of #selected-title
    selectedInfo,        \* what #selected-info describes
    imagesContainer,     \* the image cards of #images-container, in order
    lightboxImages,      \* viewer.js:27
    lightboxCurrentIndex, \* viewer.js:28
    lightboxHidden,      \* #lightbox has class "hidden"
    plotColumns,         \* options and values of #plot-x-column and #plot-y-column
    pathPlot             \* the trace last given to Plotly.newPlot for #path-plot

vars == <<allEntries, allEntriesIsArray, filteredEntries, allCandidates,
          filteredCandidates, paginationState, allDataLoaded, currentDataSource,
          availableDataSources, serverSources, filterFrbId, filterMinTop1, filterMinSum, cutMinPox, cutMaxPox, cutMaxMag,
          candidatesMode, pageSizeSelect, status, selectDisabled, serverActive,
          indexRequests, pathRequests, sourcesRequest, switchProc, bulkProc, dataLoadStatus,
          appliedCuts, userActions, selectedEntry, selectedTitle, selectedInfo,
          imagesContainer, lightboxImages, lightboxCurrentIndex, lightboxHidden,
          plotColumns, pathPlot>>

----------------------------------------------------------------------------
(* Optional numbers *)

NULL == <<>>

NaN == <<>>

Num(v) == <<v>>

IsNumber(x) == Len(x) = 1

Val(x) == x[1]

----------------------------------------------------------------------------
(* Strings *)

Max(a, b) == IF a >= b THEN a ELSE b

Min(a, b) == IF a <= b THEN a ELSE b

\* String.prototype.toLowerCase on one character
LowerChar(c) ==
    CASE c = "F" -> "f"
      [] c = "R" -> "r"
      [] c = "B" -> "b"
      [] c = "A" -> "a"
      [] OTHER -> c

ToLowerCase(s) == [i \in 1..Len(s) |-> LowerChar(s[i])]

IsSpace(c) == c = " "

RECURSIVE TrimStart(_)
TrimStart(s) ==
    IF s # <<>> /\ IsSpace(Head(s)) THEN TrimStart(Tail(s)) ELSE s

RECURSIVE TrimEnd(_)
TrimEnd(s) ==
    IF s # <<>> /\ IsSpace(s[Len(s)]) THEN TrimEnd(SubSeq(s, 1, Len(s) - 1)) ELSE s

\* String.prototype.trim
Trim(s) == TrimEnd(TrimStart(s))

\* String.prototype.includes
Includes(s, sub) ==
    \E i \in 1..(Len(s) + 1) :
        /\ i + Len(sub) - 1 <= Len(s)
        /\ SubSeq(s, i, i + Len(sub) - 1) = sub

----------------------------------------------------------------------------
(* parseFloat: leading white space, an optional sign, digits, an optional  *)
(* fraction; the longest such prefix is the number, and a text with no     *)
(* digit there is NaN.  Values are kept in hundredths, so the texts of the *)
(* model carry at most two decimals.                                       *)

DigitValue(c) ==
    CASE c = "0" -> 0 [] c = "1" -> 1 [] c = "2" -> 2 [] c = "3" -> 3
      [] c = "4" -> 4 [] c = "5" -> 5 [] c = "6" -> 6 [] c = "7" -> 7
      [] c = "8" -> 8 [] c = "9" -> 9 [] OTHER -> -1

IsDigit(c) == DigitValue(c) >= 0

RECURSIVE DigitPrefixLen(_)
DigitPrefixLen(s) ==
    IF s # <<>> /\ IsDigit(Head(s)) THEN 1 + DigitPrefixLen(Tail(s)) ELSE 0

RECURSIVE DigitsValue(_)
DigitsValue(s) ==
    IF s = <<>> THEN 0
    ELSE 10 * DigitsValue(SubSeq(s, 1, Len(s) - 1)) + DigitValue(s[Len(s)])

Drop(s, n) == SubSeq(s, n + 1, Len(s))

Take(s, n) == SubSeq(s, 1, n)

\* the fraction digits d1 d2 ... as hundredths (digits after the second are cut)
FractionHundredths(f) ==
    (IF Len(f) >= 1 THEN 10 * DigitValue(f[1]) ELSE 0)
    + (IF Len(f) >= 2 THEN DigitValue(f[2]) ELSE 0)

\* the digits after a decimal point at the head of r
FractionDigits(r) ==
    IF r # <<>> /\ Head(r) = "." THEN Take(Tail(r), DigitPrefixLen(Tail(r)))
    ELSE <<>>

\* the number with integer digits ip and fraction digits fp
ParseDigits(ip, fp) ==
    IF ip = <<>> /\ fp = <<>> THEN NaN
    ELSE Num(100 * DigitsValue(ip) + FractionHundredths(fp))

ParseUnsigned(u) ==
    ParseDigits(Take(u, DigitPrefixLen(u)), FractionDigits(Drop(u, DigitPrefixLen(u))))

Negate(x) == IF x = NaN THEN NaN ELSE Num(0 - Val(x))

ParseSigned(t) ==
    IF t # <<>> /\ Head(t) = "-" THEN Negate(ParseUnsigned(Tail(t)))
    ELSE IF t # <<>> /\ Head(t) = "+" THEN ParseUnsigned(Tail(t))
    ELSE ParseUnsigned(t)

ParseFloat(text) == ParseSigned(TrimStart(text))

----------------------------------------------------------------------------
(* The event index *)

\* ids and texts
F1 == <<"F", "1">>

F2 == <<"F", "2">>

B1 == <<"B", "1">>

B2 == <<"B", "2">>

Z9 == <<"Z", "9">>

Image(repo, kind) == [repo |-> repo, kind |-> kind]

\* an entry of /api/index: frb_id, path.top1_pox, path.top1.pox, path.sum_top2_pox, images
Entry(id, top1_pox, top1, sum_top2_pox, images) ==
    [frb_id |-> id, top1_pox |-> top1_pox, top1 |-> top1,
     sum_top2_pox |-> sum_top2_pox, images |-> images]

\* top1_pox 0.93, sum_top2_pox 0.97
E1 == Entry(F1, Num(93), NULL, Num(97),
            <<Image("chime-path", "path-main"), Image("chime-host-analysis", "host-sed")>>)

\* no scores at all
E2 == Entry(F2, NULL, NULL, NULL, <<Image("chime-path", "path-zoomin")>>)

\* the top1 score only under path.top1.pox
E3 == Entry(B1, NULL, Num(50), Num(50), <<>>)

\* a sum score but no top1 score
E4 == Entry(B2, NULL, NULL, Num(99), <<Image("chime-path", "path-main")>>)

AllEvents == {E1, E2, E3, E4}

\* getTop1Pox
getTop1Pox(entry) ==
    IF IsNumber(entry.top1_pox) THEN entry.top1_pox
    ELSE IF IsNumber(entry.top1) THEN entry.top1
    ELSE NULL

\* getSumTop2Pox
getSumTop2Pox(entry) ==
    IF IsNumber(entry.sum_top2_pox) THEN entry.sum_top2_pox ELSE NULL

\* a filter callback whose top1 bound is exclusive: a score equal to the
\* bound fails
EntryPassesExclusive(entry, frbFilter, minTop1, minSum) ==
    LET top1    == getTop1Pox(entry)
        sumTop2 == getSumTop2Pox(entry)
    IN  /\ ~(frbFilter # <<>> /\ ~Includes(ToLowerCase(entry.frb_id), frbFilter))
        /\ ~(minTop1 # NaN /\ top1 # NULL /\ Val(top1) <= Val(minTop1))
        /\ ~(minSum # NaN /\ (sumTop2 = NULL \/ Val(sumTop2) < Val(minSum)))

\* the callback of allEntries.filter in applyFilters, TRUE when the entry is kept;
\* frbFilter is the trimmed lower-cased text, minTop1 and minSum the parsed bounds
EntryPasses(entry, frbFilter, minTop1, minSum) ==
    LET top1    == getTop1Pox(entry)
        sumTop2 == getSumTop2Pox(entry)
    IN  /\ ~(frbFilter # <<>> /\ ~Includes(ToLowerCase(entry.frb_id), frbFilter))
        /\ ~(minTop1 # NaN /\ top1 # NULL /\ Val(top1) < Val(minTop1))
        /\ ~(minSum # NaN /\ (sumTop2 = NULL \/ Val(sumTop2) < Val(minSum)))

\* an event filter that returns the kept events last to first
FilterEntriesReversed(entries, frbText, minTop1Text, minSumText) ==
    LET frbFilter == ToLowerCase(Trim(frbText))
        minTop1   == ParseFloat(minTop1Text)
        minSum    == ParseFloat(minSumText)
        Keep(e)   == ~(frbFilter # <<>> /\ ~Includes(ToLowerCase(e.frb_id), frbFilter))
                     /\ ~(minTop1 # NaN /\ getTop1Pox(e) # NULL
                          /\ Val(getTop1Pox(e)) < Val(minTop1))
                     /\ ~(minSum # NaN /\ (getSumTop2Pox(e) = NULL
                          \/ Val(getSumTop2Pox(e)) < Val(minSum)))
        kept      == SelectSeq(entries, Keep)
    IN  [i \in 1..Len(kept) |-> kept[Len(kept) + 1 - i]]

\* the filteredEntries that applyFilters computes from the three input texts
FilterEntries(entries, frbText, minTop1Text, minSumText) ==
    LET frbFilter == ToLowerCase(Trim(frbText))
        minTop1   == ParseFloat(minTop1Text)
        minSum    == ParseFloat(minSumText)
        Keep(e)   == EntryPasses(e, frbFilter, minTop1, minSum)
    IN  SelectSeq(entries, Keep)

----------------------------------------------------------------------------
(* Candidate arrays, run-length encoded *)

Row(id, pox, mag) == [frb_id |-> id, pox |-> pox, mag |-> mag]

Run(row, n) == [row |-> row, n |-> n]

R1 == Row(F1, Num(90), Num(1800))

\* no probability
R2 == Row(F1, NULL, Num(2500))

\* no magnitude
R3 == Row(B1, Num(10), NULL)

\* a row of an event the index does not know
R4 == Row(Z9, Num(50), Num(2000))

R5 == Row(F2, Num(70), Num(2000))

RECURSIVE Length(_)
\* array.length
Length(a) == IF a = <<>> THEN 0 ELSE Head(a).n + Length(Tail(a))

RECURSIVE Normalize(_)
\* the canonical encoding: no empty run, no two adjacent runs of the same row
Normalize(a) ==
    IF a = <<>> THEN <<>>
    ELSE IF Head(a).n = 0 THEN Normalize(Tail(a))
    ELSE LET rest == Normalize(Tail(a))
         IN  IF rest # <<>> /\ Head(rest).row = Head(a).row
             THEN <<Run(Head(a).row, Head(a).n + Head(rest).n)>> \o Tail(rest)
             ELSE <<Head(a)>> \o rest

\* a.concat(b), as allData.push(...b) builds it
Concat(a, b) == Normalize(a \o b)

RECURSIVE Slice(_, _, _)
\* the rows [offset, offset + limit) of a
Slice(a, offset, limit) ==
    IF a = <<>> \/ limit <= 0 THEN <<>>
    ELSE IF offset >= Head(a).n THEN Slice(Tail(a), offset - Head(a).n, limit)
    ELSE LET take == Min(Head(a).n - offset, limit)
         IN  Normalize(<<Run(Head(a).row, take)>> \o Slice(Tail(a), 0, limit - take))

\* the rows of an array, as a set
Rows(a) == {a[i].row : i \in 1..Len(a)}

\* a candidate callback in which a set bound fails a row whose field is null
RowPassesNullFails(row, allowedFrbIds, minPox, maxPox, maxMag) ==
    /\ row.frb_id \in allowedFrbIds
    /\ ~(minPox # NaN /\ (row.pox = NULL \/ Val(row.pox) < Val(minPox)))
    /\ ~(maxPox # NaN /\ (row.pox = NULL \/ Val(row.pox) > Val(maxPox)))
    /\ ~(maxMag # NaN /\ (row.mag = NULL \/ Val(row.mag) > Val(maxMag)))

\* the callback of allCandidates.filter in computeFilteredCandidates
RowPasses(row, allowedFrbIds, minPox, maxPox, maxMag) ==
    /\ row.frb_id \in allowedFrbIds
    /\ ~(minPox # NaN /\ row.pox # NULL /\ Val(row.pox) < Val(minPox))
    /\ ~(maxPox # NaN /\ row.pox # NULL /\ Val(row.pox) > Val(maxPox))
    /\ ~(maxMag # NaN /\ row.mag # NULL /\ Val(row.mag) > Val(maxMag))

Cuts(minPoxText, maxPoxText, maxMagText) ==
    [minPox |-> minPoxText, maxPox |-> maxPoxText, maxMag |-> maxMagText]

\* the filteredCandidates that computeFilteredCandidates computes
FilterCandidates(candidates, entries, cuts) ==
    LET allowedFrbIds == {entries[i].frb_id : i \in 1..Len(entries)}
        minPox  == ParseFloat(cuts.minPox)
        maxPox  == ParseFloat(cuts.maxPox)
        maxMag  == ParseFloat(cuts.maxMag)
        Keep(r) == RowPasses(r.row, allowedFrbIds, minPox, maxPox, maxMag)
    IN  IF candidates = <<>> THEN <<>>
        ELSE Normalize(SelectSeq(candidates, Keep))

----------------------------------------------------------------------------
(* The backend, as the client sees it *)

\* s1 and s2 are small data sources, s3 is one whose full table needs
\* confirmation, s4 is one of 250 rows
Sources == {"s1", "s2", "s3", "s4"}

NoSource == "null"

\* GET /api/index of a data source
ServerIndex(src) ==
    IF src = "s1" THEN <<E1, E2, E3, E4>> ELSE <<E3, E1>>

\* the association table of a data source, every candidate of every event
ServerRows(src) ==
    CASE src = "s1" -> <<Run(R1, 1), Run(R2, 1), Run(R3, 1), Run(R4, 1)>>
      [] src = "s2" -> <<Run(R5, 1), Run(R3, 2)>>
      [] src = "s4" -> <<Run(R1, 120), Run(R3, 130)>>
      [] OTHER      -> <<Run(R5, 30000), Run(R3, 20001)>>

RECURSIVE CountOf(_, _)
\* how many rows of a belong to event id
CountOf(a, id) ==
    IF a = <<>> THEN 0
    ELSE (IF Head(a).row.frb_id = id THEN Head(a).n ELSE 0) + CountOf(Tail(a), id)

RECURSIVE TopNPerEvent(_, _, _)
\* at most topN rows per event, in table order; done is the part already kept
TopNPerEvent(a, topN, done) ==
    IF a = <<>> THEN done
    ELSE LET room == Max(0, topN - CountOf(done, Head(a).row.frb_id))
             keep == Min(room, Head(a).n)
         IN  TopNPerEvent(Tail(a), topN, Concat(done, <<Run(Head(a).row, keep)>>))

\* the table GET /api/path-table pages through; topN is NULL without top_n
ServerTable(src, topN) ==
    IF topN = NULL THEN ServerRows(src)
    ELSE TopNPerEvent(ServerRows(src), Val(topN), <<>>)

\* the largest limit the backend accepts
MaxLimit == 10000

\* the JSON body of GET /api/path-table?offset&limit&top_n
PathTableResponse(src, offset, limit, topN) ==
    LET table == ServerTable(src, topN)
    IN  [data    |-> Slice(table, offset, limit),
         offset  |-> offset,
         limit   |-> limit,
         total   |-> Length(table),
         has_more |-> offset + limit < Length(table)]

\* the backend rejects a limit outside 1..MaxLimit and a negative offset
ServerAccepts(offset, limit) == offset >= 0 /\ limit >= 1 /\ limit <= MaxLimit

----------------------------------------------------------------------------
(* Bounds and input sets *)

\* page requests the user may have in flight at once
MaxInFlight == 1

\* user events (input, click, change) in one run
MaxUserActions == 2

\* the highest page the user pages forward to
MaxPage == 3

\* fallback page size of the kickoff handler
DefaultPageSize == 100

\* options of #page-size-select
PageSizes == {2, DefaultPageSize}

\* options of #candidates-mode-select
Modes == {"top1", "top2", "top5", "all"}

\* texts typed into #filter-frb-id
FrbTexts == {<<>>, <<"F", "1", " ">>}

\* texts typed into #filter-min-top1
MinTop1Texts == {<<>>, <<"0", ".", "9", "5">>}

\* texts typed into #filter-min-sum
MinSumTexts == {<<>>, <<"0", ".", "6">>}

\* the event-filter settings the user moves between, one field at a time
FilterSettings ==
    {<<f, a, b>> \in FrbTexts \X MinTop1Texts \X MinSumTexts :
        Cardinality({i \in 1..3 : <<f, a, b>>[i] # <<>>}) <= 1}

\* texts typed into #cut-min-pox, #cut-max-pox, #cut-max-mag
CutSettings ==
    {Cuts(<<>>, <<>>, <<>>),
     Cuts(<<"0", ".", "5">>, <<>>, <<>>),
     Cuts(<<>>, <<"0", ".", "8">>, <<"2", "0">>)}

IndexOutcomes == {"ok", "null", "object", "http", "throw"}

PathOutcomes == {"ok", "http", "throw"}

----------------------------------------------------------------------------
(* Derivations *)

currentCuts == Cuts(cutMinPox, cutMaxPox, cutMaxMag)

\* a computeFilteredCandidates that keeps to the cut texts it read the time
\* before
computeFilteredCandidatesStale(candidates, entries) ==
    [filteredCandidates |-> FilterCandidates(candidates, entries, appliedCuts),
     appliedCuts        |-> appliedCuts]

\* computeFilteredCandidates on the current state, with a given candidate array
\* and filtered event list; the cuts are read only when there are candidates
computeFilteredCandidates(candidates, entries) ==
    [filteredCandidates |-> FilterCandidates(candidates, entries, currentCuts),
     appliedCuts        |-> IF candidates = <<>> THEN appliedCuts ELSE currentCuts]

\* an applyFilters that filters the events and leaves the candidates as
\* they were
applyFiltersEventsOnly(entries, candidates, frbText, minTop1Text, minSumText) ==
    [filteredEntries    |-> FilterEntries(entries, frbText, minTop1Text, minSumText),
     filteredCandidates |-> filteredCandidates,
     appliedCuts        |-> appliedCuts]

\* an applyFilters that filters the candidates first, against the events of
\* the previous filter setting
applyFiltersCandidatesFirst(entries, candidates, frbText, minTop1Text, minSumText) ==
    LET fc == computeFilteredCandidates(candidates, filteredEntries)
    IN  [filteredEntries    |-> FilterEntries(entries, frbText, minTop1Text, minSumText),
         filteredCandidates |-> fc.filteredCandidates,
         appliedCuts        |-> fc.appliedCuts]

\* applyFilters with the given input texts: the events first, then the
\* candidates against the events just filtered
applyFilters(entries, candidates, frbText, minTop1Text, minSumText) ==
    LET fe == FilterEntries(entries, frbText, minTop1Text, minSumText)
        fc == computeFilteredCandidates(candidates, fe)
    IN  [filteredEntries    |-> fe,
         filteredCandidates |-> fc.filteredCandidates,
         appliedCuts        |-> fc.appliedCuts]

\* the two column selects without an option
NoColumns == [keys |-> <<>>, x |-> "", y |-> ""]

\* no trace has been plotted
NoPlot == [xCol |-> "", yCol |-> "", points |-> <<>>]

\* the keys of a row that hold a number, in the order of the row's keys
numericKeys(row) == SelectSeq(<<"mag", "pox">>, LAMBDA key : row[key] # NULL)

\* populatePlotColumnSelects: the options are the numeric keys of the first
\* row, the defaults mag for x and pox for y
populatePlotColumnSelects(candidates) ==
    IF candidates = <<>> \/ numericKeys(candidates[1].row) = <<>> THEN NoColumns
    ELSE LET keys == numericKeys(candidates[1].row)
         IN  [keys |-> keys,
              x |-> IF \E i \in 1..Len(keys) : keys[i] = "mag" THEN "mag" ELSE keys[1],
              y |-> IF \E i \in 1..Len(keys) : keys[i] = "pox" THEN "pox"
                    ELSE IF Len(keys) >= 2 THEN keys[2] ELSE keys[1]]

\* the point of a row: x, y and the text shown on hover
plotPoint(row, xCol, yCol) == [x |-> row[xCol], y |-> row[yCol], text |-> row.frb_id]

\* a generateCandidatePlot that plots a row when one of the two values is a
\* number
generateCandidatePlotEither(candidates, xCol, yCol, plotted) ==
    IF xCol = "" \/ yCol = "" THEN plotted
    ELSE [xCol |-> xCol, yCol |-> yCol,
          points |->
              LET numeric(r) == r.row[xCol] # NULL \/ r.row[yCol] # NULL
                  kept == SelectSeq(candidates, numeric)
              IN  Normalize([i \in 1..Len(kept) |->
                                Run(plotPoint(kept[i].row, xCol, yCol), kept[i].n)])]

\* generateCandidatePlot on the given filteredCandidates and column values;
\* plotted is the trace on screen, which stays when a select has no value
generateCandidatePlot(candidates, xCol, yCol, plotted) ==
    IF xCol = "" \/ yCol = "" THEN plotted
    ELSE [xCol |-> xCol, yCol |-> yCol,
          points |->
              LET numeric(r) == r.row[xCol] # NULL /\ r.row[yCol] # NULL
                  kept == SelectSeq(candidates, numeric)
              IN  Normalize([i \in 1..Len(kept) |->
                                Run(plotPoint(kept[i].row, xCol, yCol), kept[i].n)])]

\* Math.floor(offset / limit) + 1
PageOf(offset, limit) == (offset \div limit) + 1

----------------------------------------------------------------------------
(* Initial state: the DOMContentLoaded handler has run, its three fetches  *)
(* are in flight.                                                          *)

\* the details panel and the lightbox before any click: nothing selected,
\* no card, the lightbox hidden with an empty list
NoInfo == [kind |-> "none", mode |-> "none", frb_id |-> <<>>]

GalleryInit ==
    /\ pathPlot = NoPlot
    /\ selectedEntry = <<>>
    /\ selectedTitle = <<>>
    /\ selectedInfo = NoInfo
    /\ imagesContainer = <<>>
    /\ lightboxImages = <<>>
    /\ lightboxCurrentIndex = 0
    /\ lightboxHidden = TRUE

IdleSwitch == [pc |-> "idle", sourceName |-> NoSource]

IdleBulk == [pc |-> "idle", topN |-> NULL, total |-> 0, offset |-> 0,
             allData |-> <<>>, src |-> NoSource]

IndexRequest(owner, src) == [owner |-> owner, src |-> src]

\* a call loadPathTable(offset, limit) whose fetch is in flight; newest notes
\* the most recent call made so far (history, not read by any handler)
PathRequest(owner, src, offset, limit) ==
    [owner |-> owner, src |-> src, offset |-> offset, limit |-> limit,
     newest |-> [src |-> src, offset |-> offset, limit |-> limit]]

\* one more fetch in flight; none of the earlier ones is aborted
Enqueue(requests, request) ==
    Append([i \in 1..Len(requests) |->
                [requests[i] EXCEPT !.newest = request.newest]],
           request)

\* the first page asks for the rows #page-size-select shows on load
InitWith(active, sources) ==
    /\ allEntries = <<>>
    /\ allEntriesIsArray = TRUE
    /\ filteredEntries = <<>>
    /\ allCandidates = <<>>
    /\ filteredCandidates = <<>>
    /\ paginationState = [offset |-> 0, limit |-> 100, total |-> 0,
                          hasMore |-> FALSE, currentPage |-> 1]
    /\ allDataLoaded = FALSE
    /\ currentDataSource = NoSource
    /\ availableDataSources = {}
    /\ serverSources = sources
    /\ filterFrbId = <<>>
    /\ filterMinTop1 = <<>>
    /\ filterMinSum = <<>>
    /\ cutMinPox = <<>>
    /\ cutMaxPox = <<>>
    /\ cutMaxMag = <<>>
    /\ candidatesMode = "top1"
    /\ pageSizeSelect \in PageSizes
    /\ status = "loading-index"
    /\ selectDisabled = TRUE
    /\ serverActive = active
    /\ indexRequests = {IndexRequest("init", active)}
    /\ pathRequests = <<PathRequest("init", active, 0, pageSizeSelect)>>
    /\ sourcesRequest = TRUE
    /\ switchProc = IdleSwitch
    /\ bulkProc = IdleBulk
    /\ dataLoadStatus = "empty"
    /\ appliedCuts = Cuts(<<>>, <<>>, <<>>)
    /\ userActions = 0
    /\ GalleryInit
    /\ plotColumns = NoColumns

\* the backend serves source s1 and knows s1 and s2
Init == InitWith("s1", {"s1", "s2"})

----------------------------------------------------------------------------
(* Event filters and candidate cuts *)

filterInputs == <<filterFrbId, filterMinTop1, filterMinSum>>

cutInputs == <<cutMinPox, cutMaxPox, cutMaxMag>>

entryVars == <<allEntries, allEntriesIsArray, filteredEntries>>

galleryVars == <<selectedEntry, selectedTitle, selectedInfo, imagesContainer,
                 lightboxImages, lightboxCurrentIndex, lightboxHidden>>

\* what the handlers of the tables leave alone
displayVars == <<galleryVars, plotColumns, pathPlot>>

\* a user event is handled
UserEvent == userActions < MaxUserActions /\ userActions' = userActions + 1

fetchVars == <<indexRequests, pathRequests, sourcesRequest, switchProc, bulkProc>>

sourceVars == <<currentDataSource, availableDataSources, status, selectDisabled,
                serverActive, serverSources>>

\* an "input" event on one of the three event-filter fields, the new texts
\* being one of settings: applyFilters.  allEntries.filter throws when
\* allEntries is no array, and nothing changes.
FilterInputFrom(settings) ==
    \E t \in settings :
        /\ Cardinality({i \in 1..3 : t[i] # filterInputs[i]}) = 1
        /\ filterFrbId' = t[1]
        /\ filterMinTop1' = t[2]
        /\ filterMinSum' = t[3]
        /\ IF allEntriesIsArray
           THEN \E r \in {applyFilters(allEntries, allCandidates, t[1], t[2], t[3])} :
                    /\ filteredEntries' = r.filteredEntries
                    /\ filteredCandidates' = r.filteredCandidates
                    /\ appliedCuts' = r.appliedCuts
           ELSE UNCHANGED <<filteredEntries, filteredCandidates, appliedCuts>>
        /\ UNCHANGED <<allEntries, allEntriesIsArray, allCandidates, paginationState,
                       allDataLoaded, cutInputs, candidatesMode, pageSizeSelect,
                       sourceVars, fetchVars, dataLoadStatus>>

FilterInput ==
    /\ UserEvent
    /\ UNCHANGED displayVars
    /\ FilterInputFrom(FilterSettings)

\* the user edits the cut fields, the new texts being one of settings; no
\* listener is attached to them
CutInputFrom(settings) ==
    \E c \in settings :
        /\ c # currentCuts
        /\ cutMinPox' = c.minPox
        /\ cutMaxPox' = c.maxPox
        /\ cutMaxMag' = c.maxMag
        /\ UNCHANGED <<entryVars, allCandidates, filteredCandidates, paginationState,
                       allDataLoaded, filterInputs, candidatesMode, pageSizeSelect,
                       sourceVars, fetchVars, appliedCuts, dataLoadStatus>>

CutInput ==
    /\ UserEvent
    /\ UNCHANGED displayVars
    /\ CutInputFrom(CutSettings)

\* computeFilteredCandidates(); renderCandidateTable()
RecomputeCandidates ==
    LET r == computeFilteredCandidates(allCandidates, filteredEntries)
    IN  /\ filteredCandidates' = r.filteredCandidates
        /\ appliedCuts' = r.appliedCuts
        /\ UNCHANGED <<entryVars, allCandidates, paginationState, allDataLoaded,
                       filterInputs, cutInputs, candidatesMode, pageSizeSelect,
                       sourceVars, fetchVars>>

\* click on #btn-apply-cuts
ApplyCuts ==
    /\ UserEvent
    /\ UNCHANGED displayVars
    /\ RecomputeCandidates
    /\ UNCHANGED dataLoadStatus

\* click on #btn-generate-plot: a warning when not all rows are loaded, then
\* the candidates are recomputed before plotting
GeneratePlot ==
    /\ UserEvent
    /\ UNCHANGED <<galleryVars, plotColumns>>
    /\ dataLoadStatus' =
           IF ~allDataLoaded /\ paginationState.total > paginationState.limit
           THEN "warning" ELSE dataLoadStatus
    /\ RecomputeCandidates
    /\ pathPlot' = generateCandidatePlot(filteredCandidates', plotColumns.x,
                                         plotColumns.y, pathPlot)

\* "change" on #candidates-mode-select
ModeChange ==
    /\ UserEvent
    /\ UNCHANGED displayVars
    /\ \E m \in Modes \ {candidatesMode} :
           /\ candidatesMode' = m
           /\ allDataLoaded' = FALSE
           /\ dataLoadStatus' = "mode-changed"
           /\ UNCHANGED <<entryVars, allCandidates, filteredCandidates, paginationState,
                          filterInputs, cutInputs, pageSizeSelect, sourceVars, fetchVars,
                          appliedCuts>>

----------------------------------------------------------------------------
(* loadData: GET /api/index *)

\* a loadData that filters the fetched events and leaves filteredCandidates
\* as the page load before it computed them
loadDataEventsOnly(outcome, data) ==
    IF outcome \in {"ok", "null"}
    THEN LET entries == IF outcome = "ok" THEN data ELSE <<>>
         IN  [allEntries |-> entries, allEntriesIsArray |-> TRUE,
              filteredEntries |-> FilterEntries(entries, filterFrbId,
                                                filterMinTop1, filterMinSum),
              filteredCandidates |-> filteredCandidates,
              appliedCuts |-> appliedCuts, status |-> "loaded"]
    ELSE [allEntries |-> IF outcome = "object" THEN <<>> ELSE allEntries,
          allEntriesIsArray |-> IF outcome = "object" THEN FALSE ELSE allEntriesIsArray,
          filteredEntries |-> filteredEntries,
          filteredCandidates |-> filteredCandidates,
          appliedCuts |-> appliedCuts, status |-> "failed-index"]

\* a loadData that appends the fetched events to the ones in memory
loadDataMerging(outcome, data) ==
    IF outcome \in {"ok", "null"}
    THEN LET entries == allEntries \o (IF outcome = "ok" THEN data ELSE <<>>)
             r == applyFilters(entries, allCandidates,
                               filterFrbId, filterMinTop1, filterMinSum)
         IN  [allEntries |-> entries, allEntriesIsArray |-> TRUE,
              filteredEntries |-> r.filteredEntries,
              filteredCandidates |-> r.filteredCandidates,
              appliedCuts |-> r.appliedCuts, status |-> "loaded"]
    ELSE [allEntries |-> IF outcome = "object" THEN <<>> ELSE allEntries,
          allEntriesIsArray |-> IF outcome = "object" THEN FALSE ELSE allEntriesIsArray,
          filteredEntries |-> filteredEntries,
          filteredCandidates |-> filteredCandidates,
          appliedCuts |-> appliedCuts, status |-> "failed-index"]

\* what the completion of loadData leaves in allEntries, allEntriesIsArray,
\* filteredEntries, filteredCandidates, appliedCuts and #status.
\*   ok      a JSON array          null    JSON null, taken as []
\*   object  a JSON value that is no array: allEntries is assigned, slice throws
\*   http    a non-success status  throw   fetch or response.json() rejects
loadData(outcome, data) ==
    IF outcome \in {"ok", "null"}
    THEN LET entries == IF outcome = "ok" THEN data ELSE <<>>
             r == applyFilters(entries, allCandidates,
                               filterFrbId, filterMinTop1, filterMinSum)
         IN  [allEntries |-> entries, allEntriesIsArray |-> TRUE,
              filteredEntries |-> r.filteredEntries,
              filteredCandidates |-> r.filteredCandidates,
              appliedCuts |-> r.appliedCuts, status |-> "loaded"]
    ELSE IF outcome = "object"
    THEN [allEntries |-> <<>>, allEntriesIsArray |-> FALSE,
          filteredEntries |-> filteredEntries,
          filteredCandidates |-> filteredCandidates,
          appliedCuts |-> appliedCuts, status |-> "failed-index"]
    ELSE [allEntries |-> allEntries, allEntriesIsArray |-> allEntriesIsArray,
          filteredEntries |-> filteredEntries,
          filteredCandidates |-> filteredCandidates,
          appliedCuts |-> appliedCuts, status |-> "failed-index"]

\* the limit below which loadPathTable counts as a paginated load
PagedLimit == 10000

\* a loadPathTable that never resets the flag
loadPathTableFlagKept(limit, flag) == flag

\* the synchronous part of loadPathTable: the flag after it
loadPathTableFlag(limit, flag) == IF limit < PagedLimit THEN FALSE ELSE flag

\* the GET /api/index request q completes with the given outcome.  The call
\* made by switchDataSource goes on, in the same turn, to
\* loadPathTable(0, paginationState.limit).
IndexResponseOf(q, outcome) ==
    \E r \in {loadData(outcome, ServerIndex(q.src))} :
        /\ q \in indexRequests
        /\ indexRequests' = indexRequests \ {q}
        /\ allEntries' = r.allEntries
        /\ allEntriesIsArray' = r.allEntriesIsArray
        /\ filteredEntries' = r.filteredEntries
        /\ filteredCandidates' = r.filteredCandidates
        /\ appliedCuts' = r.appliedCuts
        /\ status' = r.status
        /\ IF q.owner = "switch"
           THEN /\ allDataLoaded' =
                      loadPathTableFlag(paginationState.limit, allDataLoaded)
                /\ pathRequests' = Enqueue(pathRequests,
                      PathRequest("switch", serverActive, 0, paginationState.limit))
                /\ switchProc' = [switchProc EXCEPT !.pc = "table"]
           ELSE UNCHANGED <<allDataLoaded, pathRequests, switchProc>>
        /\ UNCHANGED <<allCandidates, paginationState, currentDataSource,
                       availableDataSources, serverSources,
                       filterInputs, cutInputs, candidatesMode, pageSizeSelect,
                       selectDisabled, serverActive, sourcesRequest, bulkProc,
                       dataLoadStatus, userActions, displayVars>>

IndexResponse ==
    \E q \in indexRequests, outcome \in IndexOutcomes : IndexResponseOf(q, outcome)

----------------------------------------------------------------------------
(* loadPathTable: one page of GET /api/path-table *)

\* a loadPathTable that shows the fetched page without filtering it
loadPathTableUnfiltered(outcome, result) ==
    IF outcome = "ok"
    THEN [allCandidates |-> result.data,
          filteredCandidates |-> result.data,
          appliedCuts |-> appliedCuts,
          paginationState |->
              [offset |-> result.offset, limit |-> result.limit,
               total |-> result.total, hasMore |-> result.has_more,
               currentPage |-> PageOf(result.offset, result.limit)]]
    ELSE [allCandidates |-> <<>>,
          filteredCandidates |-> <<>>,
          appliedCuts |-> appliedCuts,
          paginationState |-> paginationState]

\* what the completion of loadPathTable leaves in allCandidates,
\* filteredCandidates, appliedCuts and paginationState; result is the JSON body
loadPathTable(outcome, result) ==
    IF outcome = "ok"
    THEN LET fc == computeFilteredCandidates(result.data, filteredEntries)
         IN  [allCandidates |-> result.data,
              filteredCandidates |-> fc.filteredCandidates,
              appliedCuts |-> fc.appliedCuts,
              paginationState |->
                  [offset |-> result.offset, limit |-> result.limit,
                   total |-> result.total, hasMore |-> result.has_more,
                   currentPage |-> PageOf(result.offset, result.limit)]]
    ELSE [allCandidates |-> <<>>,
          filteredCandidates |-> <<>>,
          appliedCuts |-> appliedCuts,
          paginationState |-> paginationState]

\* the call loadPathTable(offset, limit) up to its fetch
IssuePage(owner, offset, limit) ==
    /\ allDataLoaded' = loadPathTableFlag(limit, allDataLoaded)
    /\ pathRequests' = Enqueue(pathRequests,
                               PathRequest(owner, serverActive, offset, limit))

RemoveAt(q, i) == SubSeq(q, 1, i - 1) \o SubSeq(q, i + 1, Len(q))

\* the i-th page request in flight completes with the given outcome.  The
\* one awaited by switchDataSource ends the switch.
PathResponseOf(i, outcome) ==
    /\ i \in 1..Len(pathRequests)
    /\ \E q \in {pathRequests[i]} :
       \E r \in {loadPathTable(outcome,
                     PathTableResponse(q.src, q.offset, q.limit, NULL))} :
           /\ outcome = "ok" => ServerAccepts(q.offset, q.limit)
           /\ pathRequests' = RemoveAt(pathRequests, i)
           /\ allCandidates' = r.allCandidates
           /\ filteredCandidates' = r.filteredCandidates
           /\ appliedCuts' = r.appliedCuts
           /\ paginationState' = r.paginationState
           /\ plotColumns' = IF outcome = "ok"
                             THEN populatePlotColumnSelects(r.allCandidates)
                             ELSE plotColumns
           /\ IF q.owner = "switch"
              THEN /\ status' = "switched"
                   /\ selectDisabled' = FALSE
                   /\ switchProc' = IdleSwitch
              ELSE UNCHANGED <<status, selectDisabled, switchProc>>
           /\ UNCHANGED <<entryVars, allDataLoaded, currentDataSource, filterInputs,
                          availableDataSources, serverSources,
                          cutInputs, candidatesMode, pageSizeSelect, serverActive,
                          indexRequests, sourcesRequest, bulkProc, dataLoadStatus,
                          userActions, galleryVars, pathPlot>>

\* page requests complete in any order
PathResponse ==
    \E i \in 1..Len(pathRequests), outcome \in PathOutcomes : PathResponseOf(i, outcome)

pageFrame == <<entryVars, allCandidates, filteredCandidates, currentDataSource,
               availableDataSources, serverSources,
               filterInputs, cutInputs, candidatesMode, status, selectDisabled,
               serverActive, indexRequests, sourcesRequest, switchProc, bulkProc,
               dataLoadStatus, appliedCuts>>

\* click on #btn-next-page, asking for a page that starts on the last row of
\* the page on screen
goToNextPageOverlapping ==
    /\ UserEvent
    /\ UNCHANGED displayVars
    /\ LET newOffset == paginationState.offset + paginationState.limit - 1
       IN  /\ paginationState.hasMore
           /\ Len(pathRequests) < MaxInFlight
           /\ PageOf(newOffset, paginationState.limit) <= MaxPage
           /\ IssuePage("user", newOffset, paginationState.limit)
           /\ UNCHANGED <<pageFrame, paginationState, pageSizeSelect>>

\* click on #btn-next-page
goToNextPage ==
    /\ UserEvent
    /\ UNCHANGED displayVars
    /\ LET newOffset == paginationState.offset + paginationState.limit
       IN  /\ paginationState.hasMore
           /\ Len(pathRequests) < MaxInFlight
           /\ PageOf(newOffset, paginationState.limit) <= MaxPage
           /\ IssuePage("user", newOffset, paginationState.limit)
           /\ UNCHANGED <<pageFrame, paginationState, pageSizeSelect>>

\* click on #btn-prev-page
goToPrevPage ==
    /\ UserEvent
    /\ UNCHANGED displayVars
    /\ LET newOffset == Max(0, paginationState.offset - paginationState.limit)
       IN  /\ paginationState.offset > 0
           /\ Len(pathRequests) < MaxInFlight
           /\ IssuePage("user", newOffset, paginationState.limit)
           /\ UNCHANGED <<pageFrame, paginationState, pageSizeSelect>>

\* "change" on #page-size-select
changePageSize ==
    /\ UserEvent
    /\ UNCHANGED displayVars
    /\ \E newSize \in PageSizes \ {pageSizeSelect} :
           /\ Len(pathRequests) < MaxInFlight
           /\ pageSizeSelect' = newSize
           /\ paginationState' = [paginationState EXCEPT !.limit = newSize, !.offset = 0]
           /\ IssuePage("user", 0, newSize)
           /\ UNCHANGED pageFrame

----------------------------------------------------------------------------
(* Data sources *)

\* GET /api/data-sources completes
SourcesResponse ==
    /\ UNCHANGED <<userActions, displayVars>>
    /\ \E ok \in BOOLEAN :
           /\ sourcesRequest
           /\ sourcesRequest' = FALSE
           /\ IF ok
              THEN /\ availableDataSources' = serverSources
                   /\ currentDataSource' = serverActive
                   /\ selectDisabled' = FALSE
              ELSE UNCHANGED <<availableDataSources, currentDataSource, selectDisabled>>
           /\ UNCHANGED <<entryVars, allCandidates, filteredCandidates, paginationState,
                          allDataLoaded, filterInputs, cutInputs, candidatesMode,
                          pageSizeSelect, status, serverActive, serverSources, indexRequests,
                          pathRequests, switchProc, bulkProc, dataLoadStatus,
                          appliedCuts>>

\* "change" on #data-source-select: switchDataSource(sourceName) up to its fetch
SwitchStart ==
    /\ UserEvent
    /\ UNCHANGED displayVars
    /\ \E sourceName \in availableDataSources :
           /\ ~selectDisabled
           /\ sourceName # currentDataSource
           /\ selectDisabled' = TRUE
           /\ status' = "rebuilding"
           /\ switchProc' = [pc |-> "post", sourceName |-> sourceName]
           /\ UNCHANGED <<entryVars, allCandidates, filteredCandidates, paginationState,
                          allDataLoaded, currentDataSource, filterInputs, cutInputs,
                          availableDataSources, serverSources,
                          candidatesMode, pageSizeSelect, serverActive, indexRequests,
                          pathRequests, sourcesRequest, bulkProc, dataLoadStatus,
                          appliedCuts>>

\* a switch that takes the requested source as the current one before the
\* POST is answered and does not take it back on failure
SwitchResponseOptimistic ==
    /\ UNCHANGED <<userActions, displayVars>>
    /\ \E ok \in BOOLEAN :
           /\ switchProc.pc = "post"
           /\ currentDataSource' = switchProc.sourceName
           /\ IF ok
              THEN /\ serverActive' = switchProc.sourceName
                   /\ allDataLoaded' = FALSE
                   /\ status' = "loading-index"
                   /\ indexRequests' = indexRequests \cup
                                       {IndexRequest("switch", switchProc.sourceName)}
                   /\ switchProc' = [switchProc EXCEPT !.pc = "index"]
                   /\ UNCHANGED selectDisabled
              ELSE /\ status' = "switch-failed"
                   /\ selectDisabled' = FALSE
                   /\ switchProc' = IdleSwitch
                   /\ UNCHANGED <<serverActive, allDataLoaded, indexRequests>>
           /\ UNCHANGED <<entryVars, allCandidates, filteredCandidates, paginationState,
                          filterInputs, cutInputs, candidatesMode, pageSizeSelect,
                          availableDataSources, serverSources,
                          pathRequests, sourcesRequest, bulkProc, dataLoadStatus,
                          appliedCuts>>

\* POST /api/data-sources/switch completes; on success loadData() is called
SwitchResponse ==
    /\ UNCHANGED <<userActions, displayVars>>
    /\ \E ok \in BOOLEAN :
           /\ switchProc.pc = "post"
           /\ IF ok
              THEN /\ serverActive' = switchProc.sourceName
                   /\ currentDataSource' = switchProc.sourceName
                   /\ allDataLoaded' = FALSE
                   /\ status' = "loading-index"
                   /\ indexRequests' = indexRequests \cup
                                       {IndexRequest("switch", switchProc.sourceName)}
                   /\ switchProc' = [switchProc EXCEPT !.pc = "index"]
                   /\ UNCHANGED selectDisabled
              ELSE /\ status' = "switch-failed"
                   /\ selectDisabled' = FALSE
                   /\ switchProc' = IdleSwitch
                   /\ UNCHANGED <<serverActive, currentDataSource, allDataLoaded,
                                  indexRequests>>
           /\ UNCHANGED <<entryVars, allCandidates, filteredCandidates, paginationState,
                          filterInputs, cutInputs, candidatesMode, pageSizeSelect,
                          availableDataSources, serverSources,
                          pathRequests, sourcesRequest, bulkProc, dataLoadStatus,
                          appliedCuts>>

----------------------------------------------------------------------------
(* loadAllCandidates: the bulk load *)

\* rows per request of the bulk load
BatchSize == 10000

\* a total above this asks the user for confirmation
ConfirmThreshold == 50000

\* the top_n of a mode; NULL for "all"
TopNOf(mode) ==
    CASE mode = "top1" -> Num(1)
      [] mode = "top2" -> Num(2)
      [] mode = "top5" -> Num(5)
      [] OTHER -> NULL

bulkFrame == <<entryVars, currentDataSource, availableDataSources, serverSources,
               filterInputs, cutInputs, candidatesMode,
               pageSizeSelect, status, selectDisabled, serverActive, indexRequests,
               pathRequests, sourcesRequest, switchProc>>

\* click on #btn-load-all (disabled while a bulk load runs): the count request
BulkStart ==
    /\ UserEvent
    /\ UNCHANGED displayVars
    /\ /\ bulkProc.pc = "idle"
       /\ bulkProc' = [pc |-> "count", topN |-> TopNOf(candidatesMode), total |-> 0,
                       offset |-> 0, allData |-> <<>>, src |-> serverActive]
       /\ dataLoadStatus' = "loading"
       /\ UNCHANGED <<bulkFrame, allCandidates, filteredCandidates, paginationState,
                      allDataLoaded, appliedCuts>>

\* the end of a successful bulk load, with the rows accumulated
BulkFinish(allData) ==
    \E fc \in {computeFilteredCandidates(allData, filteredEntries)} :
        /\ allCandidates' = allData
        /\ allDataLoaded' = TRUE
        /\ paginationState' = [paginationState EXCEPT
                                  !.total = Length(allData), !.offset = 0,
                                  !.limit = Length(allData), !.hasMore = FALSE]
        /\ filteredCandidates' = fc.filteredCandidates
        /\ appliedCuts' = fc.appliedCuts
        /\ dataLoadStatus' = "loaded"
        /\ bulkProc' = IdleBulk

\* a catch that shows the rows accumulated before the failure
BulkFailPartial ==
    /\ bulkProc' = IdleBulk
    /\ dataLoadStatus' = "error"
    /\ allCandidates' = bulkProc.allData
    /\ filteredCandidates' = bulkProc.allData
    /\ paginationState' = [paginationState EXCEPT !.total = Length(bulkProc.allData)]
    /\ UNCHANGED <<allDataLoaded, appliedCuts>>

\* a catch that starts the bulk load again with a new count request
BulkFailRetry ==
    /\ bulkProc' = [bulkProc EXCEPT !.pc = "count", !.total = 0, !.offset = 0,
                                    !.allData = <<>>, !.src = serverActive]
    /\ dataLoadStatus' = "loading"
    /\ UNCHANGED <<allCandidates, filteredCandidates, paginationState, allDataLoaded,
                   appliedCuts>>

\* a catch without the finally block: the load has ended, the button stays
\* disabled
BulkFailDisabled ==
    /\ bulkProc' = [IdleBulk EXCEPT !.pc = "disabled"]
    /\ dataLoadStatus' = "error"
    /\ UNCHANGED <<allCandidates, filteredCandidates, paginationState, allDataLoaded,
                   appliedCuts>>

\* the catch of loadAllCandidates
BulkFail ==
    /\ bulkProc' = IdleBulk
    /\ dataLoadStatus' = "error"
    /\ UNCHANGED <<allCandidates, filteredCandidates, paginationState, allDataLoaded,
                   appliedCuts>>

\* a declined confirmation that loads all the same
BulkDeclineLoads ==
    /\ bulkProc' = [bulkProc EXCEPT !.pc = "page", !.offset = 0, !.allData = <<>>,
                       !.total = PathTableResponse(bulkProc.src, 0, 1, bulkProc.topN).total]
    /\ dataLoadStatus' = "loading"
    /\ UNCHANGED <<allCandidates, filteredCandidates, paginationState, allDataLoaded,
                   appliedCuts>>

\* the user declines window.confirm
BulkDecline ==
    /\ bulkProc' = IdleBulk
    /\ dataLoadStatus' = "empty"
    /\ UNCHANGED <<allCandidates, filteredCandidates, paginationState, allDataLoaded,
                   appliedCuts>>

\* a loop that asks for the batch it has just received once more
BulkLoopRepeating(total, offset, allData) ==
    IF offset < total
    THEN /\ bulkProc' = [bulkProc EXCEPT !.pc = "page", !.total = total,
                            !.offset = Max(0, offset - BatchSize),
                            !.allData = allData, !.src = serverActive]
         /\ dataLoadStatus' = "loading"
         /\ UNCHANGED <<allCandidates, filteredCandidates, paginationState,
                        allDataLoaded, appliedCuts>>
    ELSE BulkFinish(allData)

\* a loop that reads the mode selector again for every page request
BulkLoopRereading(total, offset, allData) ==
    IF offset < total
    THEN /\ bulkProc' = [bulkProc EXCEPT !.pc = "page", !.total = total,
                            !.offset = offset, !.allData = allData,
                            !.src = serverActive,
                            !.topN = TopNOf(candidatesMode)]
         /\ dataLoadStatus' = "loading"
         /\ UNCHANGED <<allCandidates, filteredCandidates, paginationState,
                        allDataLoaded, appliedCuts>>
    ELSE BulkFinish(allData)

\* the next page request of the loop, or its end when offset has reached total
BulkLoop(total, offset, allData) ==
    IF offset < total
    THEN /\ bulkProc' = [bulkProc EXCEPT !.pc = "page", !.total = total,
                            !.offset = offset, !.allData = allData,
                            !.src = serverActive]
         /\ dataLoadStatus' = "loading"
         /\ UNCHANGED <<allCandidates, filteredCandidates, paginationState,
                        allDataLoaded, appliedCuts>>
    ELSE BulkFinish(allData)

\* the count request completes; a total above the threshold asks window.confirm,
\* whose answer is confirmLoad
BulkCountResponseOf(outcome, confirmLoad) ==
    /\ bulkProc.pc = "count"
    /\ IF outcome = "ok"
       THEN \E total \in {PathTableResponse(bulkProc.src, 0, 1, bulkProc.topN).total} :
                IF total > ConfirmThreshold /\ ~confirmLoad
                THEN BulkDecline
                ELSE BulkLoop(total, 0, <<>>)
       ELSE BulkFail
    /\ UNCHANGED <<bulkFrame, userActions, displayVars>>

BulkCountResponse ==
    \E outcome \in PathOutcomes, confirmLoad \in BOOLEAN :
        BulkCountResponseOf(outcome, confirmLoad)

\* a page request of the loop completes
BulkPageResponseOf(outcome) ==
    /\ bulkProc.pc = "page"
    /\ IF outcome = "ok"
       THEN \E result \in {PathTableResponse(bulkProc.src, bulkProc.offset,
                                             BatchSize, bulkProc.topN)} :
                IF ~result.has_more
                THEN BulkFinish(Concat(bulkProc.allData, result.data))
                ELSE BulkLoop(bulkProc.total, bulkProc.offset + BatchSize,
                              Concat(bulkProc.allData, result.data))
       ELSE BulkFail
    /\ UNCHANGED <<bulkFrame, userActions, displayVars>>

BulkPageResponse ==
    \E outcome \in PathOutcomes : BulkPageResponseOf(outcome)

----------------------------------------------------------------------------
(* Selection, grid view and lightbox *)

\* an element of a lightbox list: its url names repo and path of the image
ImageData(entry, imgInfo) ==
    [frbId |-> entry.frb_id, repo |-> imgInfo.repo, kind |-> imgInfo.kind]

isPathImage(img) == img.repo = "chime-path"

isHostImage(img) == img.repo = "chime-host-analysis"

\* data-mode of the links of #dropdown-path and #dropdown-host, and one value
\* that showGridForMode has no case for
GridModes ==
    {"path-main", "path-zoomin", "path-local-stars", "path-local-nostars",
     "host-all", "host-ppxf", "host-sed", "host-spectra", "other"}

\* the predicate that the switch of showGridForMode chooses for mode
predicate(mode, img) ==
    CASE mode \in {"path-main", "path-zoomin", "path-local-stars",
                   "path-local-nostars"}
             -> isPathImage(img) /\ img.kind = mode
      [] mode = "host-all" -> isHostImage(img)
      [] mode \in {"host-ppxf", "host-sed", "host-spectra"}
             -> isHostImage(img) /\ img.kind = mode
      [] OTHER -> TRUE

\* images.map(...): the lightbox list of one entry
lightboxData(entry, images) ==
    [i \in 1..Len(images) |-> ImageData(entry, images[i])]

RECURSIVE allGridImages(_, _)
\* the two nested forEach loops of showGridForMode over entries
allGridImages(mode, entries) ==
    IF entries = <<>> THEN <<>>
    ELSE lightboxData(Head(entries),
                      SelectSeq(Head(entries).images,
                                LAMBDA img : predicate(mode, img)))
         \o allGridImages(mode, Tail(entries))

\* the entries that showGridForMode goes through, taken from the whole index
gridEntriesAll == allEntries

\* the entries that showGridForMode goes through
gridEntries == filteredEntries

lightboxVars == <<lightboxImages, lightboxCurrentIndex, lightboxHidden>>

\* setSelectedEntry(entry), entry being <<>> for null: an empty title is the
\* text "No FRB selected", an empty container one of the placeholder texts
setSelectedEntry(entry) ==
    /\ selectedEntry' = entry
    /\ IF entry = <<>>
       THEN /\ selectedTitle' = <<>>
            /\ selectedInfo' = NoInfo
            /\ imagesContainer' = <<>>
       ELSE /\ selectedTitle' = entry[1].frb_id
            /\ selectedInfo' = [kind |-> "event", mode |-> "none",
                                frb_id |-> entry[1].frb_id]
            /\ imagesContainer' = lightboxData(entry[1], entry[1].images)
    /\ UNCHANGED lightboxVars

\* showGridForMode(mode)
showGridForMode(mode) ==
    /\ selectedInfo' = [kind |-> "grid", mode |-> mode, frb_id |-> <<>>]
    /\ imagesContainer' = allGridImages(mode, gridEntries)
    /\ UNCHANGED <<selectedEntry, selectedTitle, lightboxVars>>

\* openLightbox(images, startIndex)
openLightbox(images, startIndex) ==
    /\ lightboxImages' = images
    /\ lightboxCurrentIndex' = startIndex
    /\ lightboxHidden' = FALSE

\* closeLightbox()
closeLightbox ==
    /\ lightboxHidden' = TRUE
    /\ UNCHANGED <<lightboxImages, lightboxCurrentIndex>>

\* lightboxPrev()
lightboxPrev ==
    /\ lightboxCurrentIndex' =
           IF lightboxCurrentIndex > 0 THEN lightboxCurrentIndex - 1
           ELSE lightboxCurrentIndex
    /\ UNCHANGED <<lightboxImages, lightboxHidden>>

\* lightboxNext() going back to the first image after the last
lightboxNextWrapping ==
    /\ lightboxCurrentIndex' =
           IF lightboxCurrentIndex < Len(lightboxImages) - 1
           THEN lightboxCurrentIndex + 1
           ELSE 0
    /\ UNCHANGED <<lightboxImages, lightboxHidden>>

\* lightboxNext()
lightboxNext ==
    /\ lightboxCurrentIndex' =
           IF lightboxCurrentIndex < Len(lightboxImages) - 1
           THEN lightboxCurrentIndex + 1
           ELSE lightboxCurrentIndex
    /\ UNCHANGED <<lightboxImages, lightboxHidden>>

\* everything but the details panel and the lightbox
\* stores, cursor, fields, status texts and requests
coreVars == <<allEntries, allEntriesIsArray, filteredEntries, allCandidates,
              filteredCandidates, paginationState, allDataLoaded,
              currentDataSource, availableDataSources, serverSources,
              filterFrbId, filterMinTop1, filterMinSum, cutMinPox, cutMaxPox,
              cutMaxMag, candidatesMode, pageSizeSelect, status,
              selectDisabled, serverActive, indexRequests, pathRequests,
              sourcesRequest, switchProc, bulkProc, dataLoadStatus,
              appliedCuts, userActions>>

viewerVars == <<coreVars, plotColumns, pathPlot>>

panelVars == <<selectedEntry, selectedTitle, selectedInfo, imagesContainer>>

\* click on a row of the event table, which renderTable fills from
\* filteredEntries
RowClick ==
    /\ allEntriesIsArray
    /\ \E i \in 1..Len(filteredEntries) : setSelectedEntry(<<filteredEntries[i]>>)
    /\ UNCHANGED viewerVars

\* click on #clear-selection
ClearSelection ==
    /\ setSelectedEntry(<<>>)
    /\ UNCHANGED viewerVars

\* click on a link of #dropdown-path or #dropdown-host
GridLink ==
    /\ \E mode \in GridModes : showGridForMode(mode)
    /\ UNCHANGED viewerVars

\* click on the card at position index of #images-container: the list its
\* listener has captured is the one the cards were made from
CardClick ==
    /\ \E index \in 0..(Len(imagesContainer) - 1) :
           openLightbox(imagesContainer, index)
    /\ UNCHANGED <<viewerVars, panelVars>>

\* click on #lightbox-prev or ArrowLeft, which act on the open lightbox
LightboxPrevKey ==
    /\ ~lightboxHidden
    /\ lightboxPrev
    /\ UNCHANGED <<viewerVars, panelVars>>

\* click on #lightbox-next or ArrowRight
LightboxNextKey ==
    /\ ~lightboxHidden
    /\ lightboxNext
    /\ UNCHANGED <<viewerVars, panelVars>>

\* click on #lightbox-close or on the overlay, or Escape
LightboxClose ==
    /\ ~lightboxHidden
    /\ closeLightbox
    /\ UNCHANGED <<viewerVars, panelVars>>

----------------------------------------------------------------------------

Next ==
    \/ FilterInput
    \/ CutInput
    \/ ApplyCuts
    \/ GeneratePlot
    \/ ModeChange
    \/ IndexResponse
    \/ PathResponse
    \/ goToNextPage
    \/ goToPrevPage
    \/ changePageSize
    \/ SourcesResponse
    \/ SwitchStart
    \/ SwitchResponse
    \/ BulkStart
    \/ BulkCountResponse
    \/ BulkPageResponse

Spec == Init /\ [][Next]_vars

----------------------------------------------------------------------------
(* The two derivations on their own: the fetches have completed, the     *)
(* index and the candidate page are any of a bounded family, and the user  *)
(* types into the filter fields (SpecFilter) or into the cut fields and    *)
(* applies them (SpecCuts).                                                *)

\* events in an index of SpecFilter
MaxEvents == 3

\* runs in a candidate array of SpecCuts
MaxRuns == 2

\* rows in one run of SpecCuts
MaxRunLength == 2

RECURSIVE SeqsUpTo(_, _)
\* the sequences of at most n distinct elements of S
SeqsUpTo(S, n) ==
    IF n = 0 THEN {<<>>}
    ELSE LET shorter == SeqsUpTo(S, n - 1)
         IN  shorter \cup
             {Append(q, x) : <<q, x>> \in
                 {<<q, x>> \in shorter \X S :
                     Len(q) = n - 1 /\ \A i \in 1..Len(q) : q[i] # x}}

IndexFamily == SeqsUpTo(AllEvents, MaxEvents)

WideFrbTexts == {<<>>, <<" ">>, <<"f">>, <<"F", "1", " ">>, <<" ", "b", "2">>}

WideMinTop1Texts ==
    {<<>>, <<"0", ".", "9">>, <<"0", ".", "9", "5">>, <<"0", ".", "5">>, <<"x">>}

WideMinSumTexts == {<<>>, <<"0", ".", "6">>, <<".", "9", "8">>}

WideFilterSettings == WideFrbTexts \X WideMinTop1Texts \X WideMinSumTexts

CandidateFamily ==
    {Normalize([i \in 1..Len(q) |-> Run(q[i], n)]) :
        q \in SeqsUpTo({R1, R2, R3, R4}, MaxRuns), n \in 1..MaxRunLength}

WideCutSettings ==
    {Cuts(a, b, c) :
        a \in {<<>>, <<"0", ".", "9">>},
        b \in {<<>>, <<"0", ".", "8">>, <<"0", ".", "1">>},
        c \in {<<>>, <<"2", "0">>, <<"1", "8">>}}

\* the state once the kickoff fetches have completed with the given index and
\* candidate page, nothing typed yet
Settled(entries, candidates) ==
    /\ allEntries = entries
    /\ allEntriesIsArray = TRUE
    /\ filteredEntries = entries
    /\ allCandidates = candidates
    /\ filteredCandidates = FilterCandidates(candidates, entries, Cuts(<<>>, <<>>, <<>>))
    /\ paginationState = [offset |-> 0, limit |-> 100, total |-> Length(candidates),
                          hasMore |-> FALSE, currentPage |-> 1]
    /\ allDataLoaded = FALSE
    /\ currentDataSource = "s1"
    /\ availableDataSources = {"s1", "s2"}
    /\ serverSources = {"s1", "s2"}
    /\ filterFrbId = <<>>
    /\ filterMinTop1 = <<>>
    /\ filterMinSum = <<>>
    /\ cutMinPox = <<>>
    /\ cutMaxPox = <<>>
    /\ cutMaxMag = <<>>
    /\ candidatesMode = "top1"
    /\ pageSizeSelect = DefaultPageSize
    /\ status = "loaded"
    /\ selectDisabled = FALSE
    /\ serverActive = "s1"
    /\ indexRequests = {}
    /\ pathRequests = <<>>
    /\ sourcesRequest = FALSE
    /\ switchProc = IdleSwitch
    /\ bulkProc = IdleBulk
    /\ dataLoadStatus = "empty"
    /\ appliedCuts = Cuts(<<>>, <<>>, <<>>)
    /\ userActions = 0
    /\ GalleryInit
    /\ plotColumns = populatePlotColumnSelects(candidates)

InitFilter ==
    \E entries \in IndexFamily : Settled(entries, ServerRows("s1"))

TypeFilter ==
    /\ UNCHANGED <<userActions, displayVars>>
    /\ FilterInputFrom(WideFilterSettings)

SpecFilter == InitFilter /\ [][TypeFilter]_vars

InitCuts ==
    \E candidates \in CandidateFamily : Settled(ServerIndex("s1"), candidates)

TypeCut ==
    /\ UNCHANGED <<userActions, displayVars>>
    /\ CutInputFrom(WideCutSettings)

ClickApplyCuts ==
    /\ UNCHANGED <<userActions, dataLoadStatus, displayVars>>
    /\ RecomputeCandidates

SpecCuts == InitCuts /\ [][TypeCut \/ ClickApplyCuts]_vars

----------------------------------------------------------------------------
(* The viewer against a backend whose active source s3 has a table of     *)
(* 50001 rows: a bulk load of all candidates asks for confirmation and     *)
(* takes six batches.                                                      *)

InitBulk == InitWith("s3", {"s3", "s2"})

SpecBulk == InitBulk /\ [][Next]_vars

\* the same, no request of a bulk load staying unanswered for ever: a fetch
\* that gets no response (which would be a BulkCountResponse or
\* BulkPageResponse step) is rejected in the end
SpecBulkLive ==
    /\ InitBulk
    /\ [][Next]_vars
    /\ WF_vars(BulkCountResponseOf("throw", FALSE))
    /\ WF_vars(BulkPageResponseOf("throw"))

----------------------------------------------------------------------------
(* The viewer on a backend with a single data source, s3 or s4: nothing    *)
(* can be switched to, so every request of a run reads the same table.     *)

InitPages == \E src \in {"s3", "s4"} : InitWith(src, {src})

NextPages ==
    \/ FilterInput
    \/ CutInput
    \/ ApplyCuts
    \/ GeneratePlot
    \/ ModeChange
    \/ IndexResponse
    \/ PathResponse
    \/ goToNextPage
    \/ goToPrevPage
    \/ changePageSize
    \/ SourcesResponse
    \/ BulkStart
    \/ BulkCountResponse
    \/ BulkPageResponse

SpecPages == InitPages /\ [][NextPages]_vars

----------------------------------------------------------------------------
(* The viewer from two states it reaches once its fetches have completed,  *)
(* with the user's next events still to come: after a bulk load of all     *)
(* 50001 candidates of s3, and on the second page of s1, two rows a page.  *)

\* nothing in flight, nothing typed: index and source list of src loaded,
\* the given candidates in memory under the given cursor
Quiescent(src, sources, mode, pageSize, candidates, cursor, loaded, loadStatus) ==
    /\ allEntries = ServerIndex(src)
    /\ allEntriesIsArray = TRUE
    /\ filteredEntries = ServerIndex(src)
    /\ allCandidates = candidates
    /\ filteredCandidates = FilterCandidates(candidates, ServerIndex(src),
                                             Cuts(<<>>, <<>>, <<>>))
    /\ paginationState = cursor
    /\ allDataLoaded = loaded
    /\ currentDataSource = src
    /\ availableDataSources = sources
    /\ serverSources = sources
    /\ filterFrbId = <<>>
    /\ filterMinTop1 = <<>>
    /\ filterMinSum = <<>>
    /\ cutMinPox = <<>>
    /\ cutMaxPox = <<>>
    /\ cutMaxMag = <<>>
    /\ candidatesMode = mode
    /\ pageSizeSelect = pageSize
    /\ status = "loaded"
    /\ selectDisabled = FALSE
    /\ serverActive = src
    /\ indexRequests = {}
    /\ pathRequests = <<>>
    /\ sourcesRequest = FALSE
    /\ switchProc = IdleSwitch
    /\ bulkProc = IdleBulk
    /\ dataLoadStatus = loadStatus
    /\ appliedCuts = Cuts(<<>>, <<>>, <<>>)
    /\ GalleryInit
    /\ plotColumns = populatePlotColumnSelects(candidates)

\* mode "all" chosen and "Load data for plot" completed on s3
AfterBulk ==
    Quiescent("s3", {"s3", "s2"}, "all", DefaultPageSize, ServerRows("s3"),
              [offset |-> 0, limit |-> Length(ServerRows("s3")),
               total |-> Length(ServerRows("s3")), hasMore |-> FALSE,
               currentPage |-> 1],
              TRUE, "loaded")

\* page size 2 chosen on load and "next" clicked on s1
AfterNext ==
    Quiescent("s1", {"s1", "s2"}, "top1", 2, Slice(ServerRows("s1"), 2, 2),
              [offset |-> 2, limit |-> 2, total |-> Length(ServerRows("s1")),
               hasMore |-> FALSE, currentPage |-> 2],
              FALSE, "empty")

InitSwitch == (AfterBulk \/ AfterNext) /\ userActions = 0

\* the list of data sources has arrived, every other handler can run
NextSwitch ==
    \/ FilterInput
    \/ CutInput
    \/ ApplyCuts
    \/ GeneratePlot
    \/ ModeChange
    \/ IndexResponse
    \/ PathResponse
    \/ goToNextPage
    \/ goToPrevPage
    \/ changePageSize
    \/ SwitchStart
    \/ SwitchResponse
    \/ BulkStart
    \/ BulkCountResponse
    \/ BulkPageResponse

SpecSwitch == InitSwitch /\ [][NextSwitch]_vars

----------------------------------------------------------------------------
(* generateCandidatePlot on its own: on a loaded page of any of a bounded  *)
(* family the user types and applies cuts, picks plot columns and plots.   *)

TypePlotCut ==
    /\ UNCHANGED <<userActions, displayVars>>
    /\ CutInputFrom(CutSettings)

\* "change" on #plot-x-column or #plot-y-column: another option is selected
ColumnChange ==
    /\ \E axis \in {"x", "y"}, i \in 1..Len(plotColumns.keys) :
           /\ plotColumns[axis] # plotColumns.keys[i]
           /\ plotColumns' = [plotColumns EXCEPT ![axis] = plotColumns.keys[i]]
    /\ UNCHANGED <<coreVars, galleryVars, pathPlot>>

\* generateCandidatePlot()
RunPlot ==
    /\ pathPlot' = generateCandidatePlot(filteredCandidates, plotColumns.x,
                                         plotColumns.y, pathPlot)
    /\ UNCHANGED <<coreVars, galleryVars, plotColumns>>

SpecPlot == InitCuts /\ [][TypePlotCut \/ ClickApplyCuts \/ ColumnChange \/ RunPlot]_vars

----------------------------------------------------------------------------
(* The details panel and the lightbox on a loaded index: the user filters  *)
(* the events, selects rows, opens grids and walks through the lightbox.   *)

InitGallery == Settled(ServerIndex("s1"), ServerRows("s1"))

TypeGalleryFilter ==
    /\ UNCHANGED <<userActions, displayVars>>
    /\ FilterInputFrom(FilterSettings)

NextGallery ==
    \/ TypeGalleryFilter
    \/ RowClick
    \/ ClearSelection
    \/ GridLink
    \/ CardClick
    \/ LightboxPrevKey
    \/ LightboxNextKey
    \/ LightboxClose

SpecGallery == InitGallery /\ [][NextGallery]_vars

\* rows are selected and cleared while the data source is switched and the
\* index reloaded
SpecReload ==
    InitGallery /\ [][\/ RowClick
                      \/ ClearSelection
                      \/ SwitchStart
                      \/ SwitchResponse
                      \/ IndexResponse
                      \/ PathResponse]_vars

----------------------------------------------------------------------------
(* Properties *)

\* the ids of a list of events
IdsOf(entries) == {entries[i].frb_id : i \in 1..Len(entries)}

\* the event e is in filteredEntries
Kept(e) == \E j \in 1..Len(filteredEntries) : filteredEntries[j] = e

\* the bounds and the id text as applyFilters reads them from the fields
minTop1Bound == ParseFloat(filterMinTop1)

minSumBound == ParseFloat(filterMinSum)

idFilter == ToLowerCase(Trim(filterFrbId))

IdMatches(e) == idFilter = <<>> \/ Includes(ToLowerCase(e.frb_id), idFilter)

RECURSIVE IsSubsequence(_, _)
\* s is t with some elements left out, the others in their order
IsSubsequence(s, t) ==
    IF s = <<>> THEN TRUE
    ELSE IF t = <<>> THEN FALSE
    ELSE IF Head(s) = Head(t) THEN IsSubsequence(Tail(s), Tail(t))
    ELSE IsSubsequence(s, Tail(t))

RECURSIVE CountRow(_, _)
\* how many times a row occurs in a candidate array
CountRow(a, row) ==
    IF a = <<>> THEN 0
    ELSE (IF Head(a).row = row THEN Head(a).n ELSE 0) + CountRow(Tail(a), row)

NoCuts == Cuts(<<>>, <<>>, <<>>)

\* C1: when a minimum top1 bound is set every event without a top1 score is
\* excluded, when a minimum sum-top2 bound is set every event without a
\* sum-top2 score is excluded, and an event is excluded only by the id text,
\* by a set bound its score is below, or by a set bound whose score it lacks.
\* viewer.js:597 keeps an event without a top1 score under a set top1 bound.
C1_AbsenceRule ==
    \A i \in 1..Len(allEntries) :
        LET e == allEntries[i]
            top1 == getTop1Pox(e)
            sumTop2 == getSumTop2Pox(e)
        IN  /\ (minTop1Bound # NaN /\ top1 = NULL) => ~Kept(e)
            /\ (minSumBound # NaN /\ sumTop2 = NULL) => ~Kept(e)
            /\ ~Kept(e) =>
                   \/ ~IdMatches(e)
                   \/ minTop1Bound # NaN /\ (top1 = NULL \/ Val(top1) < Val(minTop1Bound))
                   \/ minSumBound # NaN /\ (sumTop2 = NULL \/ Val(sumTop2) < Val(minSumBound))

\* C2: once the cuts in the fields have been applied, a row of allCandidates
\* of a known event is dropped exactly when some set bound is violated by a
\* present field of the row, and the kept rows keep their multiplicity; so a
\* row without probability is dropped by no probability bound and a row
\* without magnitude by no magnitude bound.
C2_NullPasses ==
    (appliedCuts = currentCuts) =>
        \A i \in 1..Len(allCandidates) :
            LET row == allCandidates[i].row
                minPox == ParseFloat(cutMinPox)
                maxPox == ParseFloat(cutMaxPox)
                maxMag == ParseFloat(cutMaxMag)
                poxViolated ==
                    /\ row.pox # NULL
                    /\ \/ minPox # NaN /\ Val(row.pox) < Val(minPox)
                       \/ maxPox # NaN /\ Val(row.pox) > Val(maxPox)
                magViolated ==
                    row.mag # NULL /\ maxMag # NaN /\ Val(row.mag) > Val(maxMag)
                known == row.frb_id \in IdsOf(filteredEntries)
            IN  CountRow(filteredCandidates, row) =
                    IF known /\ ~poxViolated /\ ~magViolated
                    THEN CountRow(allCandidates, row) ELSE 0

\* the null-passes case: a minimum and a maximum probability are both
\* applied, the row without probability is kept, the row of the same event
\* with a probability is dropped
C2_Witness ==
    /\ appliedCuts = currentCuts
    /\ ParseFloat(cutMinPox) # NaN
    /\ ParseFloat(cutMaxPox) # NaN
    /\ R2 \in Rows(allCandidates) /\ R2 \in Rows(filteredCandidates)
    /\ R1 \in Rows(allCandidates) /\ R1 \notin Rows(filteredCandidates)

\* C3: every row of filteredCandidates belongs to an event of the current
\* filteredEntries; a loaded row of an event that no index knows is not among
\* them, and its presence is no failure of the load.
C3_RowsOfFilteredEvents ==
    /\ \A row \in Rows(filteredCandidates) : row.frb_id \in IdsOf(filteredEntries)
    /\ allEntriesIsArray =>
           \A row \in Rows(allCandidates) :
               row.frb_id \notin IdsOf(allEntries) => row \notin Rows(filteredCandidates)

\* an orphan row is loaded and left out while other rows are shown, under an
\* event filter that keeps some events only
C3_Witness ==
    /\ R4 \in Rows(allCandidates)
    /\ R4 \notin Rows(filteredCandidates)
    /\ filteredCandidates # <<>>
    /\ Len(filteredEntries) < Len(allEntries)
    /\ status # "failed-index"

\* C4: filteredEntries is a subsequence of allEntries, in the order of
\* allEntries, and filtering filteredEntries with the same three texts gives
\* filteredEntries again.
C4_SubsequenceIdempotent ==
    /\ IsSubsequence(filteredEntries, allEntries)
    /\ FilterEntries(filteredEntries, filterFrbId, filterMinTop1, filterMinSum)
           = filteredEntries

\* a filter that drops an event between two kept ones
C4_Witness ==
    /\ Len(allEntries) = 3
    /\ Len(filteredEntries) = 2
    /\ filteredEntries = <<allEntries[1], allEntries[3]>>

C7_EventsBeforeCandidates ==
    [][(filterInputs' # filterInputs /\ allEntriesIsArray) =>
          /\ filteredEntries' =
                 FilterEntries(allEntries, filterFrbId', filterMinTop1', filterMinSum')
          /\ filteredCandidates' =
                 FilterCandidates(allCandidates, filteredEntries', currentCuts)
          /\ \A row \in Rows(filteredCandidates') :
                 row.frb_id \in IdsOf(filteredEntries')]_vars

\* an event filter is set and a row of a known event is hidden by it alone
C7_Witness ==
    /\ filterInputs # <<<<>>, <<>>, <<>>>>
    /\ appliedCuts = NoCuts
    /\ E3 \in {allEntries[i] : i \in 1..Len(allEntries)}
    /\ ~Kept(E3)
    /\ R3 \in Rows(allCandidates)
    /\ R3 \notin Rows(filteredCandidates)
    /\ filteredCandidates # <<>>

\* C8: a loadData that ends in failure leaves allEntries and
\* filteredEntries as they were and shows the failure in the status line.
\* With a JSON body that is no array, viewer.js:315 has assigned allEntries
\* before the slice of line 316 throws.
C8_FailureKeepsIndex ==
    [][\A q \in indexRequests, outcome \in {"http", "throw", "object"} :
           IndexResponseOf(q, outcome) =>
               /\ allEntries' = allEntries
               /\ allEntriesIsArray' = allEntriesIsArray
               /\ filteredEntries' = filteredEntries
               /\ status' = "failed-index"]_vars

\* C9: a loadData that succeeds leaves in allEntries exactly the fetched
\* array and in filteredEntries its filter under the texts of the fields.
C9_SuccessReplacesIndex ==
    [][\A q \in indexRequests, outcome \in {"ok", "null"} :
           IndexResponseOf(q, outcome) =>
               /\ allEntries' = (IF outcome = "ok" THEN ServerIndex(q.src) ELSE <<>>)
               /\ allEntriesIsArray'
               /\ filteredEntries' = FilterEntries(allEntries', filterFrbId,
                                                   filterMinTop1, filterMinSum)
               /\ IsSubsequence(filteredEntries', allEntries')]_vars

\* the index of the second source has replaced the one of the first, under
\* an event filter that drops some of its events
C9_Witness ==
    /\ status = "loaded"
    /\ currentDataSource = "s2"
    /\ allEntries = ServerIndex("s2")
    /\ E2 \notin {allEntries[i] : i \in 1..Len(allEntries)}
    /\ filterInputs # <<<<>>, <<>>, <<>>>>
    /\ Len(filteredEntries) < Len(allEntries)

\* C10: a page request that ends in failure leaves allCandidates and
\* filteredCandidates as they were.  viewer.js:354-355 and 381-382 empty both.
C10_FailureKeepsCandidates ==
    [][\A i \in 1..Len(pathRequests), outcome \in {"http", "throw"} :
           PathResponseOf(i, outcome) =>
               /\ allCandidates' = allCandidates
               /\ filteredCandidates' = filteredCandidates]_vars

\* the total that the count request of the running bulk load reports
countedTotal == PathTableResponse(bulkProc.src, 0, 1, bulkProc.topN).total

\* a step that ends a bulk load in failure
BulkFailureStep ==
    \E outcome \in {"http", "throw"} :
        \/ BulkCountResponseOf(outcome, TRUE)
        \/ BulkPageResponseOf(outcome)

\* a step that ends a bulk load in success
BulkSuccessStep ==
    /\ BulkCountResponseOf("ok", TRUE) \/ BulkPageResponseOf("ok")
    /\ bulkProc'.pc = "idle"

\* C11: a failed count request or page request of loadAllCandidates leaves
\* allCandidates, filteredCandidates, paginationState and allDataLoaded as
\* they were, drops the rows accumulated and reports an error.
C11_FailedBulkDiscards ==
    [][BulkFailureStep =>
          /\ allCandidates' = allCandidates
          /\ filteredCandidates' = filteredCandidates
          /\ paginationState' = paginationState
          /\ allDataLoaded' = allDataLoaded
          /\ bulkProc'.allData = <<>>
          /\ dataLoadStatus' = "error"]_vars

\* a bulk load of all rows of the big table has failed, the page loaded
\* before is still there
C11_Witness ==
    /\ dataLoadStatus = "error"
    /\ bulkProc = IdleBulk
    /\ candidatesMode = "all"
    /\ serverActive = "s3"
    /\ allCandidates # <<>>
    /\ ~allDataLoaded

\* C12: when loadAllCandidates succeeds allCandidates has as many rows as the
\* count request reported, and allDataLoaded is true.  A data source switched
\* between the count request and a page request gives rows of another table.
C12_BulkComplete ==
    [][BulkSuccessStep =>
          /\ allDataLoaded'
          /\ Length(allCandidates') =
                 IF bulkProc.pc = "count" THEN countedTotal ELSE bulkProc.total]_vars

\* C13: a count above 50000 whose confirmation is declined issues no request
\* and leaves allCandidates, paginationState and allDataLoaded as they were; a
\* count of 50000 or below goes on to the first page request whatever the
\* answer would be.
C13_DeclinedConfirmation ==
    [][/\ (BulkCountResponseOf("ok", FALSE) /\ countedTotal > 50000) =>
              /\ bulkProc'.pc = "idle"
              /\ pathRequests' = pathRequests
              /\ indexRequests' = indexRequests
              /\ allCandidates' = allCandidates
              /\ paginationState' = paginationState
              /\ allDataLoaded' = allDataLoaded
       /\ \A confirmLoad \in BOOLEAN :
              (/\ BulkCountResponseOf("ok", confirmLoad)
               /\ countedTotal <= 50000
               /\ countedTotal > 0) =>
                  /\ bulkProc'.pc = "page"
                  /\ bulkProc'.offset = 0
                  /\ bulkProc'.total = countedTotal]_vars

\* the confirmation of a load of all 50001 rows has been declined
C13_Witness ==
    /\ candidatesMode = "all"
    /\ serverActive = "s3"
    /\ dataLoadStatus = "empty"
    /\ bulkProc = IdleBulk
    /\ allCandidates # <<>>

\* a step that issues a page request of loadPathTable
PageIssued == Len(pathRequests') = Len(pathRequests) + 1

\* C14: allDataLoaded starts false; it becomes true only on a step that ends
\* a bulk load in success; it is false after a change of the candidates mode,
\* after the issue of a page request with a limit below 10000 and after a
\* completed switch of the data source.
C14_AllDataLoadedFlag ==
    /\ ~allDataLoaded
    /\ [][/\ (allDataLoaded' /\ ~allDataLoaded) => BulkSuccessStep
          /\ candidatesMode' # candidatesMode => ~allDataLoaded'
          /\ (PageIssued /\ pathRequests'[Len(pathRequests')].limit < 10000)
                 => ~allDataLoaded'
          /\ (switchProc.pc = "post" /\ switchProc'.pc = "index") => ~allDataLoaded']_vars

\* a bulk load has succeeded and a page request issued afterwards has reset
\* the flag
C14_Witness ==
    /\ ~allDataLoaded
    /\ dataLoadStatus = "loaded"
    /\ pathRequests # <<>>
    /\ pathRequests[1].limit < 10000

\* C15: paginationState.currentPage is always floor(offset / limit) + 1.
\* changePageSize (viewer.js:430-434) and the end of loadAllCandidates
\* (viewer.js:538-541) write offset and limit and leave currentPage.
C15_CurrentPage ==
    /\ paginationState.limit > 0
    /\ paginationState.currentPage =
           (paginationState.offset \div paginationState.limit) + 1

RECURSIVE CountBefore(_, _, _)
\* how many of the first n rows of a are the given row
CountBefore(a, n, row) ==
    IF a = <<>> \/ n <= 0 THEN 0
    ELSE (IF Head(a).row = row THEN Min(n, Head(a).n) ELSE 0)
         + CountBefore(Tail(a), n - Head(a).n, row)

\* the page request issued by this step
issuedPage == pathRequests'[Len(pathRequests')]

\* C16: on one table, a click on "next" asks for the page that starts where
\* the page on screen ends, with the same limit; a page that arrives holds
\* exactly the rows offset .. offset+limit-1 of the table, reports the
\* table's total and has more rows after it exactly when offset + limit is
\* below the total, so that pages at offsets 0, limit, 2*limit, ... do not
\* overlap and together are the table; and a bulk load that succeeds leaves
\* the whole table, in table order, with total rows.
C16_PagesPartition ==
    [][/\ (PageIssued /\ issuedPage.offset > paginationState.offset)
            => /\ issuedPage.offset = paginationState.offset + paginationState.limit
               /\ issuedPage.limit = paginationState.limit
       /\ \A i \in 1..Len(pathRequests) :
             PathResponseOf(i, "ok")
                 => \E q \in {pathRequests[i]} : \E table \in {ServerRows(q.src)} :
                        /\ paginationState'.total = Length(table)
                        /\ paginationState'.offset = q.offset
                        /\ paginationState'.limit = q.limit
                        /\ paginationState'.hasMore = (q.offset + q.limit < Length(table))
                        /\ Length(allCandidates')
                               = Max(0, Min(q.limit, Length(table) - q.offset))
                        /\ \A row \in {R1, R2, R3, R4, R5} :
                               CountRow(allCandidates', row)
                                   = CountBefore(table, q.offset + q.limit, row)
                                     - CountBefore(table, q.offset, row)
       /\ BulkSuccessStep
             => /\ allCandidates' = ServerTable(serverActive, bulkProc.topN)
                /\ Length(allCandidates') = paginationState'.total
                /\ ~paginationState'.hasMore]_vars

\* the third page of the table of 250 rows, 100 rows a page, is on screen: it
\* holds the last 50 rows and nothing follows it
C16_Witness ==
    /\ serverActive = "s4"
    /\ paginationState = [offset |-> 200, limit |-> 100, total |-> 250,
                          hasMore |-> FALSE, currentPage |-> 3]
    /\ allCandidates = <<Run(R3, 50)>>

\* the three states of the selection controller, read off the viewer's state:
\* an event is selected when selectedEntry holds it, the grid view is on when
\* the panel describes a grid, and nothing is selected otherwise
InSingleEventSelected(entry) == selectedEntry = <<entry>>

InGridView(mode) == selectedInfo.kind = "grid" /\ selectedInfo.mode = mode

InNoSelection == selectedEntry = <<>> /\ selectedInfo.kind # "grid"

controllerStates ==
    {<<"NoSelection">> : x \in {s \in {"x"} : InNoSelection}}
    \cup {<<"SingleEventSelected", entry>> :
             entry \in {e \in AllEvents : InSingleEventSelected(e)}}
    \cup {<<"GridView", mode>> : mode \in {m \in GridModes : InGridView(m)}}

\* C17: the selection controller starts in NoSelection; a click on a table row
\* puts it in SingleEventSelected of that row's event, a click on a grid link
\* in GridView of that link's mode, a click on "clear" in NoSelection; and at
\* any time it is in exactly one of the three states.
C17_SelectionController ==
    /\ InNoSelection
    /\ [][/\ RowClick => \E entry \in AllEvents : InSingleEventSelected(entry)'
          /\ GridLink => \E mode \in GridModes : InGridView(mode)'
          /\ ClearSelection => InNoSelection']_vars
    /\ [](Cardinality(controllerStates) = 1)

\* the positions (event, image) of the filtered events' images that match mode
matchingPositions(mode) ==
    UNION {{<<i, j>> : j \in {k \in 1..Len(filteredEntries[i].images) :
                                 predicate(mode, filteredEntries[i].images[k])}} :
              i \in 1..Len(filteredEntries)}

\* position p is position q or comes before it: event order, then image order
notAfter(p, q) == p[1] < q[1] \/ (p[1] = q[1] /\ p[2] <= q[2])

\* a step that enters or re-enters the grid view of mode
gridStep(mode) ==
    /\ InGridView(mode)'
    /\ selectedInfo' # selectedInfo \/ imagesContainer' # imagesContainer
    /\ UNCHANGED <<viewerVars, selectedEntry, selectedTitle, lightboxVars>>

\* C18: on entering the grid view of a mode the gallery on screen holds one
\* element for every image of a filtered event that matches the mode's
\* predicate and nothing else, in event order and then image order.
C18_GridGallery ==
    [][\A mode \in GridModes :
          gridStep(mode) =>
              \E P \in {matchingPositions(mode)} :
                  /\ Len(imagesContainer') = Cardinality(P)
                  /\ \A p \in P :
                         imagesContainer'[Cardinality({q \in P : notAfter(q, p)})]
                             = ImageData(filteredEntries[p[1]],
                                         filteredEntries[p[1]].images[p[2]])]_vars

\* a grid of all images while the events are filtered: the events F1 and B2
\* pass the minimum sum, and the grid holds F1's two images, then B2's
C18_Witness ==
    /\ InGridView("other")
    /\ filterMinSum # <<>>
    /\ Len(filteredEntries) < Len(allEntries)
    /\ Len(imagesContainer) = 3
    /\ imagesContainer[1].frbId = F1
    /\ imagesContainer[2].frbId = F1
    /\ imagesContainer[3].frbId = B2

\* C19: once a list has been opened the index stays within it; prev at index
\* 0 and next at the last index leave the index where it is, and otherwise
\* they move it by one.
C19_LightboxClamped ==
    /\ [](lightboxImages # <<>>
            => lightboxCurrentIndex \in 0..(Len(lightboxImages) - 1))
    /\ [][/\ LightboxPrevKey
               => lightboxCurrentIndex' =
                      IF lightboxCurrentIndex = 0 THEN 0
                      ELSE lightboxCurrentIndex - 1
          /\ LightboxNextKey
               => lightboxCurrentIndex' =
                      IF lightboxCurrentIndex = Len(lightboxImages) - 1
                      THEN Len(lightboxImages) - 1
                      ELSE lightboxCurrentIndex + 1]_vars

\* the lightbox is open on the last of the four images of a grid
C19_Witness ==
    /\ ~lightboxHidden
    /\ Len(lightboxImages) = 4
    /\ lightboxCurrentIndex = 3

\* C20: a step that closes the lightbox leaves it with no image list.
C20_CloseDiscardsList ==
    [][(~lightboxHidden /\ lightboxHidden') => lightboxImages' = <<>>]_vars

\* C21: a switch whose POST succeeds clears allDataLoaded; its index request,
\* once answered, leaves the index of the new source in allEntries and is
\* followed by a request for the page at offset 0 that the backend serves;
\* and when the backend has answered that request, allCandidates holds the
\* first page of the new source.
C21_SwitchReloads ==
    [][/\ (switchProc.pc = "post" /\ switchProc'.pc = "index") => ~allDataLoaded'
       /\ \A q \in indexRequests :
             (q.owner = "switch" /\ IndexResponseOf(q, "ok"))
                 => /\ allEntries' = ServerIndex(serverActive)
                    /\ issuedPage.offset = 0
                    /\ ServerAccepts(issuedPage.offset, issuedPage.limit)
       /\ \A i \in 1..Len(pathRequests) : \A outcome \in PathOutcomes :
             (/\ PathResponseOf(i, outcome)
              /\ pathRequests[i].owner = "switch"
              /\ outcome = "ok" \/ ~ServerAccepts(pathRequests[i].offset,
                                                  pathRequests[i].limit))
                 => /\ allCandidates' # <<>>
                    /\ allCandidates' =
                           PathTableResponse(serverActive, 0,
                                             pathRequests[i].limit, NULL).data]_vars

\* C22: when an index request or a page request completes, the filtered
\* events and the filtered candidates it leaves are those of the filter and
\* cut texts that the fields hold on that step, whatever they held when the
\* request was issued.
C22_FreshParameters ==
    [][/\ \A q \in indexRequests :
             IndexResponseOf(q, "ok")
                 => /\ filteredEntries' =
                           FilterEntries(ServerIndex(q.src), filterFrbId,
                                         filterMinTop1, filterMinSum)
                    /\ filteredCandidates' =
                           FilterCandidates(allCandidates, filteredEntries',
                                            currentCuts)
       /\ \A i \in 1..Len(pathRequests) :
             PathResponseOf(i, "ok")
                 => /\ filteredCandidates' =
                           FilterCandidates(allCandidates', filteredEntries,
                                            currentCuts)
                    /\ allCandidates' # <<>> => appliedCuts' = currentCuts]_vars

\* the only user event so far was the typing of a cut, done while the first
\* requests were in flight, and the candidates shown are cut by it
C22_Witness ==
    /\ userActions = 1
    /\ currentCuts # NoCuts
    /\ appliedCuts = currentCuts
    /\ pathRequests = <<>>
    /\ allCandidates # <<>>
    /\ filteredCandidates # FilterCandidates(allCandidates, filteredEntries, NoCuts)

\* an error message is on screen after the step, in #status or in
\* #data-load-status
errorShown == status' \in {"failed-index", "switch-failed"} \/ dataLoadStatus' = "error"

\* the request for the list of data sources fails on this step
sourcesFailureStep == sourcesRequest /\ ~sourcesRequest' /\ availableDataSources' = {}

\* C23: every step on which a fetch fails (list of data sources, switch,
\* index, candidate page, bulk load) leaves an error message on screen.
C23_FailuresShown ==
    [][/\ sourcesFailureStep => errorShown
       /\ (switchProc.pc = "post" /\ switchProc'.pc = "idle")
             => status' = "switch-failed"
       /\ \A q \in indexRequests : \A outcome \in {"http", "throw", "object"} :
             IndexResponseOf(q, outcome) => status' = "failed-index"
       /\ \A i \in 1..Len(pathRequests) : \A outcome \in {"http", "throw"} :
             PathResponseOf(i, outcome) => errorShown
       /\ BulkFailureStep => dataLoadStatus' = "error"]_vars

\* a step that is the handling of a user event
userStep == userActions' = userActions + 1

\* C24: a step on which a fetch fails issues no request for the load that
\* failed, and ends the bulk load or the switch it belongs to; a request is
\* only ever issued by a user event or by the next stage of a running switch
\* or bulk load whose previous request has been answered.
C24_NoAutomaticRetry ==
    [][/\ \A q \in indexRequests : \A outcome \in {"http", "throw", "object"} :
             IndexResponseOf(q, outcome)
                 => /\ indexRequests' = indexRequests \ {q}
                    /\ q.owner # "switch" => pathRequests' = pathRequests
                    /\ UNCHANGED <<bulkProc, sourcesRequest>>
       /\ \A i \in 1..Len(pathRequests) : \A outcome \in {"http", "throw"} :
             PathResponseOf(i, outcome)
                 => /\ pathRequests' = RemoveAt(pathRequests, i)
                    /\ switchProc' = IF pathRequests[i].owner = "switch"
                                     THEN IdleSwitch ELSE switchProc
                    /\ UNCHANGED <<indexRequests, bulkProc, sourcesRequest>>
       /\ BulkFailureStep
             => /\ bulkProc'.pc = "idle"
                /\ UNCHANGED <<indexRequests, pathRequests, sourcesRequest, switchProc>>
       /\ sourcesFailureStep
             => UNCHANGED <<indexRequests, pathRequests, bulkProc, switchProc>>
       /\ (switchProc.pc = "post" /\ switchProc'.pc = "idle")
             => UNCHANGED <<indexRequests, pathRequests, bulkProc, sourcesRequest>>
       /\ ~sourcesRequest => ~sourcesRequest'
       /\ (bulkProc.pc = "idle" /\ bulkProc'.pc # "idle") => userStep
       /\ (switchProc.pc = "idle" /\ switchProc'.pc # "idle") => userStep
       /\ ~(indexRequests' \subseteq indexRequests) => switchProc.pc = "post"
       /\ (PageIssued /\ ~userStep) => switchProc.pc = "index"]_vars

\* the index load and a bulk load have both failed and nothing is in flight
C24_Witness ==
    /\ status = "failed-index"
    /\ dataLoadStatus = "error"
    /\ indexRequests = {}
    /\ pathRequests = <<>>
    /\ ~sourcesRequest
    /\ bulkProc = IdleBulk
    /\ switchProc = IdleSwitch

\* the answer to the page request that the bulk load has in flight
bulkBatch ==
    PathTableResponse(bulkProc.src, bulkProc.offset, BatchSize, bulkProc.topN)

\* C25: a bulk load has one request in flight at a time; after the count its
\* first page request is at offset 0; each answer adds the rows of one batch
\* of 10000; the next request is at the offset 10000 higher, and none is
\* issued once an answer has has_more false or the next offset has reached
\* the total of the count request.
C25_BulkSequential ==
    [][/\ \A confirmLoad \in BOOLEAN :
             (BulkCountResponseOf("ok", confirmLoad) /\ bulkProc'.pc # "idle")
                 => /\ bulkProc'.pc = "page"
                    /\ bulkProc'.offset = 0
                    /\ bulkProc'.allData = <<>>
                    /\ bulkProc'.total = countedTotal
       /\ BulkPageResponseOf("ok")
             => /\ bulkProc.offset < bulkProc.total
                /\ IF bulkBatch.has_more /\ bulkProc.offset + BatchSize < bulkProc.total
                   THEN /\ bulkProc'.pc = "page"
                        /\ bulkProc'.offset = bulkProc.offset + BatchSize
                        /\ bulkProc'.total = bulkProc.total
                        /\ Length(bulkProc'.allData) =
                               Length(bulkProc.allData) + Length(bulkBatch.data)
                        /\ Length(bulkBatch.data) <= BatchSize
                   ELSE bulkProc'.pc = "idle"
       /\ (bulkProc.pc = "page" /\ bulkProc'.pc = "page"
           /\ bulkProc'.offset # bulkProc.offset)
             => BulkPageResponseOf("ok")]_vars

\* the third batch of the table of 50001 rows is being fetched
C25_Witness ==
    /\ bulkProc.pc = "page"
    /\ bulkProc.offset = 2 * BatchSize
    /\ bulkProc.total = 50001
    /\ Length(bulkProc.allData) = 2 * BatchSize

RECURSIVE Expand(_)
\* a run-length encoded array row by row
Expand(a) ==
    IF a = <<>> THEN <<>>
    ELSE [k \in 1..Head(a).n |-> Head(a).row] \o Expand(Tail(a))

\* plot is the trace of the given rows for the columns xCol and yCol: one
\* point for each row that has a number in both, in row order, and no other
describesRows(plot, rows, xCol, yCol) ==
    \E plotted \in {{i \in 1..Len(rows) : rows[i][xCol] # NULL /\ rows[i][yCol] # NULL}} :
    \E points \in {Expand(plot.points)} :
        /\ plot.xCol = xCol
        /\ plot.yCol = yCol
        /\ Len(points) = Cardinality(plotted)
        /\ \A i \in plotted :
               points[Cardinality({j \in plotted : j <= i})]
                   = [x |-> rows[i][xCol], y |-> rows[i][yCol],
                      text |-> rows[i].frb_id]

\* C26: a run of generateCandidatePlot with both columns chosen leaves the
\* trace of filteredCandidates for these columns (one point per row with a
\* number in both, in row order, none for another row) and changes nothing
\* else; run on inputs whose trace is already on screen it changes nothing.
C26_PlotProjection ==
    [][/\ pathPlot' # pathPlot
             => /\ describesRows(pathPlot', Expand(filteredCandidates),
                                 plotColumns.x, plotColumns.y)
                /\ UNCHANGED <<coreVars, galleryVars, plotColumns>>
       /\ (/\ RunPlot
           /\ plotColumns.x # ""
           /\ plotColumns.y # ""
           /\ describesRows(pathPlot, Expand(filteredCandidates),
                            plotColumns.x, plotColumns.y))
             => UNCHANGED vars]_vars

\* a trace of mag against pox that leaves out a row of filteredCandidates
C26_Witness ==
    /\ pathPlot.xCol = "mag"
    /\ pathPlot.yCol = "pox"
    /\ pathPlot.points # <<>>
    /\ Length(pathPlot.points) < Length(filteredCandidates)
    /\ describesRows(pathPlot, Expand(filteredCandidates), "mag", "pox")

\* C27: a plot click with allDataLoaded false and a page in memory that
\* has fewer rows than the total shows the warning, as does one with a total
\* above the page limit; a plot click with allDataLoaded true leaves the
\* load status as it was, and that status is not the warning.
C27_PlotWarning ==
    [][GeneratePlot
          => /\ (~allDataLoaded /\ paginationState.total > paginationState.limit)
                    => dataLoadStatus' = "warning"
             /\ (/\ ~allDataLoaded
                 /\ allCandidates # <<>>
                 /\ paginationState.total > Length(allCandidates))
                    => dataLoadStatus' = "warning"
             /\ allDataLoaded
                    => /\ dataLoadStatus' = dataLoadStatus
                       /\ dataLoadStatus' # "warning"]_vars

\* C28: while allDataLoaded is true and no switch is under way, allCandidates
\* is the whole table of the backend's active data source for the selected
\* candidates-per-event mode.  A bulk load reads the mode once, at its start
\* (viewer.js:443-457), and sets the flag at its end whatever has happened to
\* the mode or the source in between (534-535).
C28_LoadedIsCurrent ==
    (allDataLoaded /\ switchProc = IdleSwitch)
        => allCandidates = ServerTable(serverActive, TopNOf(candidatesMode))

\* a request of the DOMContentLoaded handler is among the given ones
initPending(indexes, pages) ==
    \/ \E q \in indexes : q.owner = "init"
    \/ \E i \in 1..Len(pages) : pages[i].owner = "init"

\* the step on which the second of the two first loads arrives, with data,
\* the index in memory being a list of events as /api/index sends it
lastInitArrival ==
    /\ initPending(indexRequests, pathRequests)
    /\ ~initPending(indexRequests', pathRequests')
    /\ allEntriesIsArray'
    /\ \/ \E q \in indexRequests : q.owner = "init" /\ IndexResponseOf(q, "ok")
       \/ \E i \in 1..Len(pathRequests) :
              pathRequests[i].owner = "init" /\ PathResponseOf(i, "ok")

\* C29: the first index load and the first page load arrive in either
\* order; on the arrival of the second one filteredCandidates is the
\* candidate filter, under the cut texts of that moment, of the candidates
\* in memory against the events of the index in memory that pass the event
\* filters of that moment.
C29_InitialLoadsCommute ==
    [][lastInitArrival
          => filteredCandidates' =
                 FilterCandidates(allCandidates',
                                  FilterEntries(allEntries', filterFrbId',
                                                filterMinTop1', filterMinSum'),
                                  currentCuts')]_vars

\* both first loads have arrived with data, an event filter typed while
\* they were in flight has removed some candidates and kept others
C29_Witness ==
    /\ ~initPending(indexRequests, pathRequests)
    /\ userActions = 1
    /\ filterInputs # <<<<>>, <<>>, <<>>>>
    /\ allEntries # <<>>
    /\ allCandidates # <<>>
    /\ filteredCandidates # <<>>
    /\ Length(filteredCandidates) < Length(allCandidates)
    /\ filteredCandidates =
           FilterCandidates(allCandidates, filteredEntries, currentCuts)

\* the page has arrived before the index: no candidate is shown yet
C29_PageFirst ==
    /\ userActions = 0
    /\ allCandidates # <<>>
    /\ \E q \in indexRequests : q.owner = "init"

\* the index has arrived before the page
C29_IndexFirst ==
    /\ userActions = 0
    /\ allEntries # <<>>
    /\ \E i \in 1..Len(pathRequests) : pathRequests[i].owner = "init"

\* C30: when the last page request in flight is answered with rows, after
\* the answer to the most recently issued request has been applied and still
\* stands, allCandidates and paginationState stay those of the most recently
\* issued request.  loadPathTable applies every answer as it arrives
\* (viewer.js:363-371), so the answer that arrives last stands.
C30_LatestRequestWins ==
    [][\A i \in 1..Len(pathRequests) :
           \E newest \in {pathRequests[i].newest} :
           \E result \in {PathTableResponse(newest.src, newest.offset,
                                            newest.limit, NULL)} :
               (/\ PathResponseOf(i, "ok")
                /\ pathRequests' = <<>>
                /\ allCandidates = result.data
                /\ paginationState.offset = newest.offset
                /\ paginationState.limit = newest.limit
                /\ paginationState.total = result.total)
                   => /\ allCandidates' = result.data
                      /\ paginationState' = paginationState]_vars

\* C31: while the grid view of a mode is on, the gallery on screen holds the
\* images of the current filteredEntries that match the mode and no other,
\* so no image of an event that the event filters have dropped.  applyFilters
\* redraws the two tables and not the panel (viewer.js:613-617).
C31_GridFollowsFilter ==
    \A mode \in GridModes :
        InGridView(mode) =>
            /\ Len(imagesContainer) = Cardinality(matchingPositions(mode))
            /\ \A k \in 1..Len(imagesContainer) :
                   imagesContainer[k].frbId \in IdsOf(filteredEntries)
            /\ ~lightboxHidden =>
                   \A k \in 1..Len(lightboxImages) :
                       lightboxImages[k].frbId \in IdsOf(filteredEntries)

\* C32: selectedEntry is null or one of the events of the current allEntries.
\* No handler of a reload or of a switch assigns selectedEntry
\* (viewer.js:99-117, 302-325), so the event selected before stays selected.
C32_SelectionInIndex ==
    selectedEntry # <<>> =>
        \E i \in 1..Len(allEntries) : allEntries[i] = selectedEntry[1]

\* the page requests a running bulk load has issued so far
pageRequestsIssued ==
    IF bulkProc.pc = "page" THEN (bulkProc.offset \div BatchSize) + 1 ELSE 0

\* C33: every request being answered, a bulk load that has started ends, in
\* success, in failure or by a declined confirmation, and #btn-load-all is
\* enabled again; while it runs it has issued at most ceil(total / batchSize)
\* page requests.
C33_BulkTerminates ==
    /\ [](pageRequestsIssued * BatchSize < bulkProc.total + BatchSize)
    /\ (bulkProc.pc # "idle") ~> (bulkProc.pc = "idle")

\* the sixth and last page request of the load of 50001 rows is in flight
C33_Witness ==
    /\ bulkProc.pc = "page"
    /\ bulkProc.total = 50001
    /\ pageRequestsIssued = 6

\* C34: a switch whose POST fails leaves currentDataSource, allEntries,
\* allCandidates, paginationState and allDataLoaded as they were, issues no
\* index or page request and reports the failure; a switch is only ever
\* started for a source other than the current one, and never for no name;
\* and every step that ends a switch, in failure or after its reloads,
\* leaves the source selector enabled.
C34_FailedSwitch ==
    [][/\ (switchProc.pc # "idle" /\ switchProc'.pc = "idle") => ~selectDisabled'
       /\ (switchProc.pc = "post" /\ switchProc'.pc = "idle")
             => /\ UNCHANGED <<currentDataSource, allEntries, allCandidates,
                               paginationState, allDataLoaded,
                               indexRequests, pathRequests>>
                /\ status' = "switch-failed"
                /\ ~selectDisabled'
       /\ (switchProc.pc = "idle" /\ switchProc'.pc # "idle")
             => /\ switchProc'.pc = "post"
                /\ switchProc'.sourceName \notin {currentDataSource, NoSource}
                /\ selectDisabled']_vars

\* a switch from s1 to s2 has failed: s1 is still the current source, its
\* index and page are in memory and the selector is enabled
C34_Witness ==
    /\ status = "switch-failed"
    /\ switchProc = IdleSwitch
    /\ ~selectDisabled
    /\ currentDataSource = "s1"
    /\ serverActive = "s1"
    /\ allEntries = ServerIndex("s1")
    /\ allCandidates # <<>>

\* the top_n parameter for a mode: 1, 2 and 5 for top1, top2 and top5, none
\* for all
topNParameter(mode) ==
    IF mode = "top1" THEN <<1>>
    ELSE IF mode = "top2" THEN <<2>>
    ELSE IF mode = "top5" THEN <<5>>
    ELSE <<>>

\* C35: a bulk load takes its top_n from the mode selected when it starts
\* and keeps it for the count request and every page request, whatever the
\* selector shows by then; each batch it adds is a batch of the table
\* truncated by that top_n, and so are the rows it leaves in allCandidates.
C35_OneTruncationMode ==
    [][/\ (bulkProc.pc = "idle" /\ bulkProc'.pc # "idle")
             => /\ bulkProc'.pc = "count"
                /\ bulkProc'.topN = topNParameter(candidatesMode)
       /\ (bulkProc.pc # "idle" /\ bulkProc'.pc # "idle")
             => bulkProc'.topN = bulkProc.topN
       /\ (bulkProc.pc = "page" /\ bulkProc' # bulkProc /\ dataLoadStatus' # "error")
             => \E batch \in {Slice(ServerTable(bulkProc.src, bulkProc.topN),
                                    bulkProc.offset, BatchSize)} :
                    IF bulkProc'.pc = "page"
                    THEN bulkProc'.allData = Normalize(bulkProc.allData \o batch)
                    ELSE allCandidates' = Normalize(bulkProc.allData \o batch)]_vars

\* the page request of a load started in mode top1 is in flight while the
\* selector shows another mode
C35_Witness ==
    /\ bulkProc.pc = "page"
    /\ bulkProc.topN = <<1>>
    /\ candidatesMode # "top1"

\* the page requests in flight that a navigation control issued
navigationRequests ==
    {i \in 1..Len(pathRequests) : pathRequests[i].owner = "user"}

\* every offset a navigation control asks for is at least 0; next asks only
\* when hasMore is set and for offset + limit, previous only when offset > 0
\* and for max(0, offset - limit), a page-size change for offset 0
C36_NavigationSteps ==
    [][/\ \A i \in navigationRequests' : pathRequests'[i].offset >= 0
       /\ goToNextPage
             => /\ paginationState.hasMore
                /\ pathRequests'[Len(pathRequests')].offset
                       = paginationState.offset + paginationState.limit
       /\ goToPrevPage
             => /\ paginationState.offset > 0
                /\ pathRequests'[Len(pathRequests')].offset
                       = IF paginationState.offset > paginationState.limit
                         THEN paginationState.offset - paginationState.limit
                         ELSE 0
       /\ changePageSize
             => pathRequests'[Len(pathRequests')].offset = 0]_vars

\* C36: page navigation never requests an offset outside the data: every
\* request issued by next, previous or a page-size change asks for an offset
\* that is at least 0 and, unless it is 0, below the number of rows of the
\* source it is sent to.
C36_OffsetInsideData ==
    \A i \in navigationRequests :
        \E q \in {pathRequests[i]} :
            /\ q.offset >= 0
            /\ q.offset > 0
                  => q.offset < PathTableResponse(q.src, 0, 1, NULL).total

====
